---- MODULE Spec2Model ----
(***************************************************************************)
(* A model of the line-layout engine of cozy-floem (libs/doc): DocLines,   *)
(* its three line tiers (origin lines, folded lines, visual lines), the    *)
(* phantom text that folding and the completion lens put on a line, the    *)
(* screen lines derived from the viewport and the dirty/trigger signals.   *)
(*                                                                         *)
(* Text is modelled by its length: a buffer is the sequence of the content *)
(* lengths of its lines, every line but the last one being followed by a   *)
(* line ending.  The text shaper puts one glyph of width 1 on every        *)
(* character.  Lines, columns and offsets are 0-based as in the code;      *)
(* sequences are 1-based, so line i of buffer b is b[i + 1].               *)
(***************************************************************************)
EXTENDS Integers, Sequences, FiniteSets, TLC

\* ---------------------------------------------------------------- bounds
MaxLines == 3
MaxLineLen == 2
MaxCalls == 4

\* ------------------------------------------------------------- constants
LineEndingLen == 1
PlaceholderLen == 5
LineHeight == 23
NoLine == -1
NoLens == -1

Min2(a, b) == IF a < b THEN a ELSE b
Max2(a, b) == IF a > b THEN a ELSE b

\* ----------------------------------------------------------------- buffer
num_lines(b) == Len(b)
last_line(b) == Len(b) - 1

\* length of line i with its line ending
line_len(b, i) ==
  b[i + 1] + (IF i + 1 < Len(b) THEN LineEndingLen ELSE 0)

RECURSIVE offset_of_line(_, _)
offset_of_line(b, i) ==
  IF i <= 0 THEN 0
  ELSE IF i > Len(b) THEN offset_of_line(b, Len(b))
  ELSE offset_of_line(b, i - 1) + line_len(b, i - 1)

buffer_len(b) == offset_of_line(b, Len(b))

\* a column behind the end of its line is the end of the line
offset_of_line_col(b, line, col) ==
  IF line > last_line(b) THEN buffer_len(b)
  ELSE offset_of_line(b, line) + Min2(col, b[line + 1])

RECURSIVE line_of_offset_from(_, _, _)
line_of_offset_from(b, offset, i) ==
  IF i >= last_line(b) THEN last_line(b)
  ELSE IF offset < offset_of_line(b, i + 1) THEN i
  ELSE line_of_offset_from(b, offset, i + 1)

line_of_offset(b, offset) == line_of_offset_from(b, offset, 0)

offset_to_line_col(b, offset) ==
  LET o == Min2(offset, buffer_len(b))
      l == line_of_offset(b, o)
  IN <<l, o - offset_of_line(b, l)>>

\* --------------------------------------------------------- folding ranges
\* The folding ranges a language server reports for the buffers of the
\* model: two ranges chained on line 1, or one range over lines 0..2.
RangeA == [sl |-> 0, sc |-> 1, el |-> 1, ec |-> 0]
RangeB == [sl |-> 1, sc |-> 1, el |-> 2, ec |-> 1]
RangeC == [sl |-> 0, sc |-> 1, el |-> 2, ec |-> 1]
RangeSets == {{}, {RangeA}, {RangeB}, {RangeA, RangeB}, {RangeC}}

Bounds(r) == [sl |-> r.sl, sc |-> r.sc, el |-> r.el, ec |-> r.ec]
WithStatus(r, st) ==
  [sl |-> r.sl, sc |-> r.sc, el |-> r.el, ec |-> r.ec, status |-> st]

\* FoldingRangeStatus::click
click(st) == IF st = "Fold" THEN "Unfold" ELSE "Fold"

\* FoldingRanges::update_ranges: the set is replaced, a range with the
\* bounds of an old one keeps its status
update_ranges(fr, new) ==
  { WithStatus(n, IF \E o \in fr : Bounds(o) = n
                    THEN (CHOOSE o \in fr : Bounds(o) = n).status
                    ELSE "Unfold") : n \in new }

\* FoldingRanges::update_folding_item: the range that starts (UnfoldStart,
\* Folded) or ends (UnfoldEnd) at the item's position is clicked
update_folding_item(fr, item) ==
  { IF (item.ty \in {"UnfoldStart", "Folded"}
          /\ r.sl = item.line /\ r.sc = item.character)
       \/ (item.ty = "UnfoldEnd"
          /\ r.el = item.line /\ r.ec = item.character)
    THEN WithStatus(r, click(r.status)) ELSE r : r \in fr }

\* the collapsed ranges that touch a line
get_folded_range_by_line(fr, line) ==
  { r \in fr : r.status = "Fold" /\ r.sl <= line /\ line <= r.el }

\* FoldedRanges::contain_position
contain_position(folded, line, col) ==
  \E r \in folded :
     /\ (r.sl < line \/ (r.sl = line /\ r.sc <= col))
     /\ (line < r.el \/ (line = r.el /\ col <= r.ec))

\* ----------------------------------------------------------- phantom text
\* One phantom text: tlen characters are put in at column col of its line,
\* hide characters of the origin text are folded away from there.
PhantomText(kind, line, col, tlen, hide, next_line) ==
  [kind |-> kind, line |-> line, col |-> col, merge_col |-> col,
   final_col |-> col, tlen |-> tlen, hide |-> hide, next_line |-> next_line]

\* FoldedRanges::into_phantom_text: the end of a collapsed range hides the
\* start of its last line, the start of a collapsed range hides the rest of
\* its first line behind the placeholder and names the line to continue on
into_phantom_text(folded, b, line) ==
  LET content == b[line + 1]
      ends == { r \in folded : r.el = line }
      starts == { r \in folded : r.sl = line }
      e == IF ends = {} THEN <<>>
           ELSE LET r == CHOOSE r \in ends : TRUE
                IN << PhantomText("LineFoldedRang", line, 0, 0,
                                  Min2(r.ec, content), NoLine) >>
      s == IF starts = {} THEN <<>>
           ELSE LET r == CHOOSE r \in starts : TRUE
                    c == Min2(r.sc, content)
                IN << PhantomText("LineFoldedRang", line, c, PlaceholderLen,
                                  line_len(b, line) - c, r.el) >>
  IN e \o s

RECURSIVE InsertByCol(_, _)
InsertByCol(sorted, t) ==
  IF sorted = <<>> THEN <<t>>
  ELSE IF sorted[Len(sorted)].col <= t.col THEN Append(sorted, t)
  ELSE Append(InsertByCol(SubSeq(sorted, 1, Len(sorted) - 1), t),
              sorted[Len(sorted)])

RECURSIVE SortByCol(_)
SortByCol(ts) ==
  IF ts = <<>> THEN <<>>
  ELSE InsertByCol(SortByCol(SubSeq(ts, 1, Len(ts) - 1)), ts[Len(ts)])

\* the final columns of the phantom texts of one line, in column order
RECURSIVE FinalCols(_, _)
FinalCols(ts, shift) ==
  IF ts = <<>> THEN <<>>
  ELSE <<[ts[1] EXCEPT !.final_col = ts[1].col + shift]>>
       \o FinalCols(Tail(ts), shift + ts[1].tlen - ts[1].hide)

RECURSIVE ShiftOf(_)
ShiftOf(ts) ==
  IF ts = <<>> THEN 0 ELSE ts[1].tlen - ts[1].hide + ShiftOf(Tail(ts))

\* PhantomTextLine::new
PhantomTextLine_new(line, origin_text_len, offset_of_line_, text) ==
  LET sorted == SortByCol(text)
  IN [line |-> line,
      offset_of_line |-> offset_of_line_,
      origin_text_len |-> origin_text_len,
      final_text_len |-> origin_text_len + ShiftOf(sorted),
      text |-> FinalCols(sorted, 0)]

\* PhantomTextLine::folded_line: the line a collapsed range continues on
folded_line(ptl) ==
  IF \E i \in 1..Len(ptl.text) : ptl.text[i].next_line # NoLine
  THEN ptl.text[CHOOSE i \in 1..Len(ptl.text) :
                  ptl.text[i].next_line # NoLine].next_line
  ELSE NoLine

\* PhantomTextMultiLine::new
PhantomTextMultiLine_new(ptl) ==
  [line |-> ptl.line,
   last_line |-> ptl.line,
   offset_of_line |-> ptl.offset_of_line,
   origin_text_len |-> ptl.origin_text_len,
   final_text_len |-> ptl.final_text_len,
   lines |-> << [line |-> ptl.line, merge_off |-> 0,
                 len |-> ptl.origin_text_len,
                 offset_of_line |-> ptl.offset_of_line] >>,
   text |-> ptl.text]

\* PhantomTextMultiLine::merge: the phantom texts of the next line move
\* behind the text merged so far
merge(pt, next) ==
  [line |-> pt.line,
   last_line |-> next.line,
   offset_of_line |-> pt.offset_of_line,
   origin_text_len |-> pt.origin_text_len + next.origin_text_len,
   final_text_len |-> pt.final_text_len + next.final_text_len,
   lines |-> Append(pt.lines,
                    [line |-> next.line, merge_off |-> pt.origin_text_len,
                     len |-> next.origin_text_len,
                     offset_of_line |-> next.offset_of_line]),
   text |-> pt.text \o
            [i \in 1..Len(next.text) |->
               [next.text[i] EXCEPT
                  !.merge_col = next.text[i].col + pt.origin_text_len,
                  !.final_col = next.text[i].final_col + pt.final_text_len]]]


\* ---------------------------------------------------- column translation
\* the column of (line, col) in the merged origin text of a folded line; a
\* line swallowed between two merged lines has no text of its own there
merge_col_of(pt, line, col) ==
  IF \E i \in 1..Len(pt.lines) : pt.lines[i].line = line
  THEN pt.lines[CHOOSE i \in 1..Len(pt.lines) :
                  pt.lines[i].line = line].merge_off + col
  ELSE IF \E i \in 1..Len(pt.lines) : pt.lines[i].line > line
  THEN pt.lines[CHOOSE i \in 1..Len(pt.lines) :
                  /\ pt.lines[i].line > line
                  /\ \A j \in 1..Len(pt.lines) :
                       pt.lines[j].line > line => i <= j].merge_off
  ELSE pt.origin_text_len

\* a merged column strictly inside a folded-away stretch of origin text
HiddenAt(pt, m) ==
  \/ \E i \in 1..Len(pt.text) :
       /\ pt.text[i].merge_col < m
       /\ m < pt.text[i].merge_col + pt.text[i].hide
  \/ \E i, j \in 1..Len(pt.text) :
       /\ i # j
       /\ pt.text[i].hide > 0 /\ pt.text[j].hide > 0
       /\ pt.text[i].merge_col + pt.text[i].hide = m
       /\ pt.text[j].merge_col = m

\* where a folded-away column is shown: at the start of its placeholder
SnapToVisible(pt, m) ==
  IF \E i \in 1..Len(pt.text) :
       pt.text[i].merge_col < m /\ m < pt.text[i].merge_col + pt.text[i].hide
  THEN pt.text[CHOOSE i \in 1..Len(pt.text) :
                 /\ pt.text[i].merge_col < m
                 /\ m < pt.text[i].merge_col + pt.text[i].hide].merge_col
  ELSE m

RECURSIVE ShiftBefore(_, _, _)
\* what the phantom texts in front of merged column m add to it; an
\* insertion at m itself counts when the column is wanted behind it
ShiftBefore(ts, m, behind) ==
  IF ts = <<>> THEN 0
  ELSE (IF ts[1].merge_col < m THEN ts[1].tlen - ts[1].hide
        ELSE IF behind /\ ts[1].merge_col = m /\ ts[1].hide = 0
        THEN ts[1].tlen
        ELSE 0)
       + ShiftBefore(Tail(ts), m, behind)

final_col_of_merge_col(pt, m0, behind) ==
  LET m == SnapToVisible(pt, m0)
  IN m + ShiftBefore(pt.text, m, behind)

\* PhantomTextMultiLine::final_col_of_col
final_col_of_col(pt, line, col, before_cursor) ==
  final_col_of_merge_col(pt, merge_col_of(pt, line, col), ~before_cursor)

\* PhantomTextMultiLine::col_at: no column for folded-away text
col_at(pt, merge_col) ==
  IF HiddenAt(pt, merge_col) THEN NoLine
  ELSE final_col_of_merge_col(pt, merge_col, FALSE)

RECURSIVE ShiftUpTo(_, _)
\* what the phantom texts that end at or before final column f added
ShiftUpTo(ts, f) ==
  IF ts = <<>> THEN 0
  ELSE (IF ts[1].final_col + ts[1].tlen <= f
        THEN ts[1].tlen - ts[1].hide ELSE 0)
       + ShiftUpTo(Tail(ts), f)

LineEntryOf(pt, line) ==
  IF \E i \in 1..Len(pt.lines) : pt.lines[i].line = line
  THEN pt.lines[CHOOSE i \in 1..Len(pt.lines) : pt.lines[i].line = line]
  ELSE pt.lines[1]

\* the merged line a merged column lies on: the last one that starts at or
\* before it
LineEntryAt(pt, m) ==
  pt.lines[CHOOSE i \in 1..Len(pt.lines) :
             /\ pt.lines[i].merge_off <= m
             /\ \A j \in 1..Len(pt.lines) :
                  pt.lines[j].merge_off <= m => j <= i]

\* PhantomTextMultiLine::cursor_position_of_final_col:
\* (origin line, column in that line, offset in the buffer)
cursor_position_of_final_col(pt, f) ==
  IF \E i \in 1..Len(pt.text) :
       pt.text[i].final_col <= f /\ f < pt.text[i].final_col + pt.text[i].tlen
  THEN LET t == pt.text[CHOOSE i \in 1..Len(pt.text) :
                          /\ pt.text[i].final_col <= f
                          /\ f < pt.text[i].final_col + pt.text[i].tlen]
       IN <<t.line, t.col, LineEntryOf(pt, t.line).offset_of_line + t.col>>
  ELSE LET ff == Min2(f, pt.final_text_len)
           m == ff - ShiftUpTo(pt.text, ff)
           e == LineEntryAt(pt, m)
       IN <<e.line, m - e.merge_off, e.offset_of_line + m - e.merge_off>>

\* ------------------------------------------------------------ text shaper
RECURSIVE Wrap(_, _)
\* the glyph counts of the sub-lines of a text of n glyphs wrapped at
\* width w (no wrapping for w = 0); an empty text has one empty sub-line
Wrap(n, w) ==
  IF w <= 0 \/ n <= w THEN <<n>> ELSE <<w>> \o Wrap(n - w, w)

RECURSIVE MaxOf(_)
MaxOf(s) == IF s = <<>> THEN 0 ELSE Max2(s[1], MaxOf(Tail(s)))

RECURSIVE SumOf(_)
SumOf(s) == IF s = <<>> THEN 0 ELSE s[1] + SumOf(Tail(s))

\* TextLayout::new_with_font_system, set_wrap and set_size
TextLayout(text_len, width) ==
  [text_len |-> text_len, line_layout |-> Wrap(text_len, width)]

layout_width(text) == MaxOf(text.line_layout)


\* ------------------------------------------------------------- DocLines
\* A DocLines value d is a record of the fields of the struct; the buffer
\* lives in its signal manager, as in the code.
buffer(d) == d.signals.buffer.v
text_of(d) == d.signals.buffer.v.text

\* the width the shaper wraps at (0: no wrapping), from
\* editor_style.wrap_method() and viewport_size
wrap_width(d) ==
  IF d.editor_style.wrap_method = "EditorWidth" THEN d.viewport_size.width
  ELSE 0

\* DocLines::phantom_text: the completion lens and the inline completion
\* (unless their positions are folded away), then the phantom texts of the
\* collapsed ranges
phantom_text(d, line) ==
  LET b == text_of(d)
      start_offset == offset_of_line(b, line)
      end_offset == offset_of_line(b, line + 1)
      origin_text_len == end_offset - start_offset
      folded_ranges == get_folded_range_by_line(d.folding_ranges, line)
      completion_line == d.completion_pos[1]
      completion_col == d.completion_pos[2]
      completion_text ==
        IF /\ d.config.enable_completion_lens
           /\ d.completion_lens # NoLens
           /\ line = completion_line
           /\ ~contain_position(folded_ranges, completion_line, completion_col)
        THEN << PhantomText("Completion", line, completion_col,
                            d.completion_lens, 0, NoLine) >>
        ELSE <<>>
      inline_completion_text ==
        IF /\ d.config.enable_inline_completion
           /\ d.inline_completion # <<>>
           /\ line = d.inline_completion[1].line
           /\ ~contain_position(folded_ranges, d.inline_completion[1].line,
                                d.inline_completion[1].col)
        THEN << PhantomText("Completion", line, d.inline_completion[1].col,
                            d.inline_completion[1].text, 0, NoLine) >>
        ELSE <<>>
  IN PhantomTextLine_new(line, origin_text_len, start_offset,
       completion_text \o inline_completion_text
         \o into_phantom_text(folded_ranges, b, line))

\* DocLines::init_origin_line
init_origin_line(d, current_line) ==
  LET start_offset == offset_of_line(text_of(d), current_line)
      end_offset == offset_of_line(text_of(d), current_line + 1)
  IN [line_index |-> current_line,
      start_offset |-> start_offset,
      len |-> end_offset - start_offset,
      phantom |-> phantom_text(d, current_line)]

\* Offset::adjust
Offset_adjust(offset, v) == v + offset

\* OriginLine::adjust: the index, the offsets and the line of the phantom
\* text line move; the phantom texts themselves are taken as they are
OriginLine_adjust(ol, offset, line_offset) ==
  [ol EXCEPT
     !.line_index = Offset_adjust(line_offset, ol.line_index),
     !.start_offset = Offset_adjust(offset, ol.start_offset),
     !.phantom.offset_of_line = Offset_adjust(offset, ol.phantom.offset_of_line),
     !.phantom.line = Offset_adjust(line_offset, ol.phantom.line)]

\* TextLayoutLine::adjust: every line and offset of the merged phantom text
\* moves
TextLayoutLine_adjust(tl, line_offset, offset) ==
  LET pt == tl.phantom_text
  IN [tl EXCEPT !.phantom_text =
       [pt EXCEPT
          !.line = Offset_adjust(line_offset, pt.line),
          !.last_line = Offset_adjust(line_offset, pt.last_line),
          !.offset_of_line = Offset_adjust(offset, pt.offset_of_line),
          !.lines = [i \in 1..Len(pt.lines) |->
                       [pt.lines[i] EXCEPT
                          !.line = Offset_adjust(line_offset, pt.lines[i].line),
                          !.offset_of_line =
                             Offset_adjust(offset, pt.lines[i].offset_of_line)]],
          !.text = [i \in 1..Len(pt.text) |->
                      [pt.text[i] EXCEPT
                         !.line = Offset_adjust(line_offset, pt.text[i].line),
                         !.next_line =
                            IF pt.text[i].next_line = NoLine THEN NoLine
                            ELSE Offset_adjust(line_offset,
                                               pt.text[i].next_line)]]]]

\* OriginFoldedLine::adjust
OriginFoldedLine_adjust(fl, offset, line_offset, line_index) ==
  [fl EXCEPT
     !.origin_interval =
        [start |-> Offset_adjust(offset, fl.origin_interval.start),
         end |-> Offset_adjust(offset, fl.origin_interval.end)],
     !.origin_line_start = Offset_adjust(line_offset, fl.origin_line_start),
     !.origin_line_end = Offset_adjust(line_offset, fl.origin_line_end),
     !.line_index = line_index,
     !.text_layout = TextLayoutLine_adjust(fl.text_layout, line_offset, offset)]

RECURSIVE MergeChain(_, _, _)
\* the loop of new_text_layout_2 over the lines a collapsed range continues
\* on: a line that is not among the origin lines fails the layout; a chain
\* that does not move forward never leaves the loop
\* a variant of the merge loop that leaves every line on its own
MergeChain_unmerged(pt, collapsed_line, origins) ==
  [kind |-> "ok", pt |-> pt]

MergeChain(pt, collapsed_line, origins) ==
  IF collapsed_line = NoLine THEN [kind |-> "ok", pt |-> pt]
  ELSE IF collapsed_line >= Len(origins) THEN [kind |-> "err", pt |-> pt]
  ELSE IF collapsed_line <= pt.last_line THEN [kind |-> "hang", pt |-> pt]
  ELSE LET next_phantom_text == origins[collapsed_line + 1].phantom
       IN MergeChain(merge(pt, next_phantom_text),
                     folded_line(next_phantom_text), origins)

\* DocLines::new_text_layout_2
new_text_layout_2(d, line, origins) ==
  IF line >= Len(origins) THEN [kind |-> "err"]
  ELSE LET origin_line == origins[line + 1]
           r == MergeChain(PhantomTextMultiLine_new(origin_line.phantom),
                           folded_line(origin_line.phantom), origins)
       IN IF r.kind # "ok" THEN [kind |-> r.kind]
          ELSE [kind |-> "ok",
                layout_line |->
                  [text |-> TextLayout(r.pt.final_text_len, wrap_width(d)),
                   phantom_text |-> r.pt]]

\* one folded line from its layout
OriginFoldedLine(d, line_index, layout_line) ==
  LET pt == layout_line.phantom_text
  IN [line_index |-> line_index,
      origin_line_start |-> pt.line,
      origin_line_end |-> pt.last_line,
      origin_interval |->
        [start |-> offset_of_line(text_of(d), pt.line),
         end |-> offset_of_line(text_of(d), pt.last_line + 1)],
      text_layout |-> layout_line]

RECURSIVE BuildFolded(_, _, _, _, _, _)
\* the folded lines of the origin lines current_line .. stop - 1: each one
\* is laid out from its first origin line and ends where its chain ends
BuildFolded(d, origins, current_line, stop, first_index, acc) ==
  IF current_line >= stop THEN [kind |-> "ok", lines |-> acc]
  ELSE LET r == new_text_layout_2(d, current_line, origins)
       IN IF r.kind # "ok" THEN [kind |-> r.kind, lines |-> acc]
          ELSE BuildFolded(d, origins,
                 r.layout_line.phantom_text.last_line + 1, stop, first_index,
                 Append(acc, OriginFoldedLine(d, first_index + Len(acc),
                                              r.layout_line)))

RECURSIVE SubLineVisuals_overlapping(_, _, _, _)
\* a variant of SubLineVisuals that starts a sub-line on the last glyph of
\* the one before, as a loop that keeps the end of an interval inclusive
\* does
SubLineVisuals_overlapping(fl, sub, cursor, first_index) ==
  LET layout == fl.text_layout.text.line_layout
      pt == fl.text_layout.phantom_text
  IN IF sub > Len(layout) THEN <<>>
     ELSE LET glyphs == layout[sub]
              from == cursor_position_of_final_col(pt, cursor)
              to == cursor_position_of_final_col(pt, cursor + glyphs)
          IN << [line_index |-> first_index + sub - 1,
                 origin_interval |-> [start |-> from[3], end |-> to[3]],
                 visual_interval |->
                   [start |-> cursor, end |-> cursor + glyphs],
                 origin_line |-> fl.origin_line_start,
                 origin_folded_line |-> fl.line_index,
                 origin_folded_line_sub_index |-> sub - 1] >>
             \o SubLineVisuals_overlapping(fl, sub + 1,
                  cursor + Max2(glyphs, 1) - 1, first_index)

RECURSIVE SubLineVisuals(_, _, _, _)
\* one visual line per sub-line of a folded line, from sub-line sub on;
\* cursor is the number of glyphs of the sub-lines before
SubLineVisuals(fl, sub, cursor, first_index) ==
  LET layout == fl.text_layout.text.line_layout
      pt == fl.text_layout.phantom_text
  IN IF sub > Len(layout) THEN <<>>
     ELSE LET glyphs == layout[sub]
              from == cursor_position_of_final_col(pt, cursor)
              to == cursor_position_of_final_col(pt, cursor + glyphs)
          IN << [line_index |-> first_index + sub - 1,
                 origin_interval |->
                   IF glyphs = 0
                   THEN [start |-> fl.origin_interval.end,
                         end |-> fl.origin_interval.end]
                   ELSE [start |-> from[3], end |-> to[3]],
                 visual_interval |->
                   [start |-> cursor, end |-> cursor + glyphs],
                 origin_line |-> fl.origin_line_start,
                 origin_folded_line |-> fl.line_index,
                 origin_folded_line_sub_index |-> sub - 1] >>
             \o SubLineVisuals(fl, sub + 1, cursor + glyphs, first_index)

RECURSIVE VisualLinesFrom(_, _, _)
VisualLinesFrom(folded, i, acc) ==
  IF i > Len(folded) THEN acc
  ELSE VisualLinesFrom(folded, i + 1,
         acc \o SubLineVisuals(folded[i], 1, 0, Len(acc)))

\* the visual lines of all folded lines
VisualLinesOf(folded) == VisualLinesFrom(folded, 1, <<>>)

\* OriginLinesDelta::default(): everything is rebuilt
FullDelta == [full |-> TRUE]

\* the origin lines of a rebuild: all of them anew, or the ones in front of
\* the edit as they are, the edited ones anew and the ones behind adjusted
AllOriginLines(d, delta) ==
  LET n == num_lines(text_of(d))
  IN IF delta.full THEN [i \in 1..n |-> init_origin_line(d, i - 1)]
     ELSE [i \in 1..n |->
             IF i - 1 < delta.first THEN d.origin_lines[i]
             ELSE IF i - 1 < delta.new_end THEN init_origin_line(d, i - 1)
             ELSE OriginLine_adjust(d.origin_lines[i - delta.line_offset],
                                    delta.offset, delta.line_offset)]

\* the folded lines of a rebuild: all of them anew, or the ones that lie in
\* front of the edit as they are, the ones that lie behind it adjusted, and
\* the ones between laid out anew
AllFoldedLines(d, delta, origins) ==
  LET n == num_lines(text_of(d))
      old == d.origin_folded_lines
  IN IF delta.full THEN BuildFolded(d, origins, 0, n, 0, <<>>)
     ELSE
       LET head == SelectSeq(old, LAMBDA f : f.origin_line_end < delta.first)
           tail == SelectSeq(old,
                     LAMBDA f : f.origin_line_start >= delta.old_end)
           from == IF head = <<>> THEN 0
                   ELSE head[Len(head)].origin_line_end + 1
           stop == IF tail = <<>> THEN n
                   ELSE tail[1].origin_line_start + delta.line_offset
           Between(mid) ==
             IF mid.kind # "ok" THEN mid
             ELSE [kind |-> "ok",
                   lines |-> head \o mid.lines \o
                     [i \in 1..Len(tail) |->
                        OriginFoldedLine_adjust(tail[i], delta.offset,
                          delta.line_offset,
                          Len(head) + Len(mid.lines) + i - 1)]]
       IN Between(BuildFolded(d, origins, from, stop, Len(head), <<>>))

\* DocLines::update_lines_new: the three line tiers for the current buffer,
\* folding ranges, completion lens, configuration and wrap width.  A failed
\* rebuild leaves the lines as they were; a rebuild that is to take lines
\* over and does not find them fails.
update_lines_new(d, delta) ==
  LET Tiers(origins, folded) ==
        IF folded.kind # "ok" THEN [kind |-> folded.kind, d |-> d]
        ELSE [kind |-> "ok",
              d |-> [d EXCEPT !.line_height = d.config.line_height,
                              !.origin_lines = origins,
                              !.origin_folded_lines = folded.lines,
                              !.visual_lines = VisualLinesOf(folded.lines)]]
      From(origins) == Tiers(origins, AllFoldedLines(d, delta, origins))
  IN IF ~delta.full
        /\ Len(d.origin_lines) # num_lines(text_of(d)) - delta.line_offset
     THEN [kind |-> "err", d |-> d]
     ELSE From(AllOriginLines(d, delta))


\* -------------------------------------------------------------- signals
\* the values DocLines shows to its observers
SignalNames ==
  {"viewport", "folding_items", "screen_lines", "buffer_rev", "buffer",
   "last_line", "pristine"}

\* SignalManager::new
SignalManager_new(v) == [v |-> v, signal |-> v, dirty |-> FALSE]

\* SignalManager::update_force
update_force(sm, nv) == [sm EXCEPT !.v = nv, !.dirty = TRUE]

\* a variant of update_if_not_equal that marks the manager whatever it holds
update_if_not_equal_always(sm, nv) == update_force(sm, nv)

\* SignalManager::update_if_not_equal
update_if_not_equal(sm, nv) == IF sm.v # nv THEN update_force(sm, nv) ELSE sm

\* SignalManager::val_mut
val_mut(sm) == [sm EXCEPT !.dirty = TRUE]

\* SignalManager::trigger
SignalManager_trigger(sm) ==
  IF sm.dirty THEN [sm EXCEPT !.signal = sm.v, !.dirty = FALSE] ELSE sm

\* A call in progress is c = [d, sets, rebuild]: the DocLines value, per
\* signal the values the call has set it to so far, and how its rebuild
\* went.
NoSets == [n \in SignalNames |-> <<>>]

\* Signals::trigger, by way of DocLines::trigger_signals
trigger_signals(c) ==
  [c EXCEPT
     !.d.signals = [n \in SignalNames |-> SignalManager_trigger(c.d.signals[n])],
     !.sets = [n \in SignalNames |->
                 IF c.d.signals[n].dirty
                 THEN Append(c.sets[n], c.d.signals[n].v)
                 ELSE c.sets[n]]]

\* DocLines::visual_lines: the visual lines start..end, both cut to the last
VisualLinesRange(d, start, end) ==
  LET s0 == Min2(start, Len(d.visual_lines) - 1)
      e0 == Min2(end, Len(d.visual_lines) - 1)
  IN SubSeq(d.visual_lines, s0 + 1, e0 + 1)

\* DocLines::_compute_screen_lines: the visual lines between the top and
\* the bottom of the viewport, each with its y in the viewport
_compute_screen_lines(d, base) ==
  LET min_val == base.y0 \div d.line_height
      max_val == base.y1 \div d.line_height
      vline_infos == VisualLinesRange(d, min_val, max_val)
  IN [base |-> base,
      line_height |-> d.line_height,
      lines |-> [i \in 1..Len(vline_infos) |->
                   [vline |-> vline_infos[i],
                    y |-> vline_infos[i].line_index * d.line_height
                          - base.y0]]]

\* ScreenLines::new: no line yet
ScreenLines_new(viewport) ==
  [base |-> viewport, line_height |-> 0, lines |-> <<>>]

\* DocLines::update_screen_lines
update_screen_lines(c) ==
  [c EXCEPT !.d.signals.screen_lines =
     update_force(c.d.signals.screen_lines,
                  _compute_screen_lines(c.d, c.d.signals.viewport.v))]

\* FoldingRanges::to_display_items: one item per boundary of a range that
\* lies on the first sub-line of a line on the screen
to_display_items(fr, screen_lines) ==
  LET Shown(line) ==
        { i \in 1..Len(screen_lines.lines) :
            /\ screen_lines.lines[i].vline.origin_line = line
            /\ screen_lines.lines[i].vline.origin_folded_line_sub_index = 0 }
      YOf(line) == screen_lines.lines[CHOOSE i \in Shown(line) : TRUE].y
  IN { [ty |-> IF r.status = "Fold" THEN "Folded" ELSE "UnfoldStart",
        line |-> r.sl, character |-> r.sc, y |-> YOf(r.sl)]
       : r \in { q \in fr : Shown(q.sl) # {} } }
     \cup
     { [ty |-> "UnfoldEnd", line |-> r.el, character |-> r.ec,
        y |-> YOf(r.el)]
       : r \in { q \in fr : q.status = "Unfold" /\ Shown(q.el) # {} } }

\* DocLines::update_folding_display_items
update_folding_display_items(c) ==
  [c EXCEPT !.d.signals.folding_items =
     update_if_not_equal(c.d.signals.folding_items,
       to_display_items(c.d.folding_ranges, c.d.signals.screen_lines.v))]

RECURSIVE MaxWidthOf(_)
MaxWidthOf(folded) ==
  IF folded = <<>> THEN 0
  ELSE Max2(layout_width(folded[1].text_layout.text),
            MaxWidthOf(Tail(folded)))

\* DocLines::on_update_lines
on_update_lines(c) ==
  [c EXCEPT
     !.d.max_width = MaxWidthOf(c.d.origin_folded_lines),
     !.d.signals.last_line =
        update_if_not_equal(c.d.signals.last_line,
                            last_line(text_of(c.d)) + 1)]

\* the rebuild inside a call
rebuild(c, delta) ==
  LET Rebuilt(r) ==
        [kind |-> r.kind, c |-> [c EXCEPT !.d = r.d, !.rebuild = r.kind]]
  IN Rebuilt(update_lines_new(c.d, delta))

\* what a call hands back
Returned(c, result) ==
  [d |-> c.d, sets |-> c.sets, rebuild |-> c.rebuild, result |-> result]


\* ---------------------------------------------------------------- edits
\* An edit is one character put in or taken out at (line, col), a line
\* split at (line, col) or a line joined with the next one.
EditKinds == {"InsertChar", "InsertNewline", "DeleteChar", "JoinLines"}

CanEdit(b, e) ==
  /\ e.line <= last_line(b)
  /\ e.col <= b[e.line + 1]
  /\ CASE e.kind = "InsertChar" -> b[e.line + 1] < MaxLineLen
       [] e.kind = "InsertNewline" -> Len(b) < MaxLines
       [] e.kind = "DeleteChar" -> e.col < b[e.line + 1]
       [] e.kind = "JoinLines" ->
            /\ e.line < last_line(b)
            /\ e.col = b[e.line + 1]
            /\ b[e.line + 1] + b[e.line + 2] <= MaxLineLen

\* the text after the edit
EditText(b, e) ==
  LET l == e.line + 1
  IN CASE e.kind = "InsertChar" -> [b EXCEPT ![l] = b[l] + 1]
       [] e.kind = "DeleteChar" -> [b EXCEPT ![l] = b[l] - 1]
       [] e.kind = "InsertNewline" ->
            SubSeq(b, 1, l - 1) \o <<e.col, b[l] - e.col>>
              \o SubSeq(b, l + 1, Len(b))
       [] e.kind = "JoinLines" ->
            SubSeq(b, 1, l - 1) \o <<b[l] + b[l + 1]>>
              \o SubSeq(b, l + 2, Len(b))

\* the RopeDelta of the edit: del characters from start on are replaced by
\* ins new ones
RopeDelta(b, e) ==
  [start |-> offset_of_line(b, e.line) + e.col,
   del |-> CASE e.kind = "DeleteChar" -> 1
             [] e.kind = "JoinLines" -> LineEndingLen
             [] OTHER -> 0,
   ins |-> CASE e.kind = "InsertChar" -> 1
             [] e.kind = "InsertNewline" -> LineEndingLen
             [] OTHER -> 0]

\* Buffer::edit: the text changes, the revision goes up, the buffer is no
\* longer pristine
Buffer_edit(buf, e) ==
  [text |-> EditText(buf.text, e), rev |-> buf.rev + 1, pristine |-> FALSE]

\* Transformer::transform with after = true
transform(delta, offset) ==
  IF delta.del = 0
  THEN IF offset >= delta.start THEN offset + delta.ins ELSE offset
  ELSE IF offset <= delta.start THEN offset
  ELSE IF offset >= delta.start + delta.del THEN offset - delta.del
  ELSE delta.start

\* resolve_delta_rs: the lines the edit touches are built anew, the lines
\* behind them move by offset characters and line_offset lines
resolve_delta_rs(old_text, e) ==
  LET delta == RopeDelta(old_text, e)
      touched_old == IF e.kind = "JoinLines" THEN 2 ELSE 1
      touched_new == IF e.kind = "InsertNewline" THEN 2 ELSE 1
  IN [full |-> FALSE,
      first |-> e.line,
      old_end |-> e.line + touched_old,
      new_end |-> e.line + touched_new,
      offset |-> delta.ins - delta.del,
      line_offset |-> touched_new - touched_old]

\* self.update_lines_new(..)?: a failed rebuild ends the call, which hands
\* the error on; after a rebuild that went well the call does the rest
OrErr(r, rest) ==
  IF r.kind = "hang" THEN Returned(r.c, "hang")
  ELSE IF r.kind = "err" THEN Returned(r.c, "Err")
  ELSE Returned(rest, "Ok")

\* DocLines::update_completion_lens: the completion lens loses what was
\* typed at its place, and its place moves with the edit
update_completion_lens(d, delta) ==
  IF d.completion_lens = NoLens THEN d
  ELSE
    LET offset == offset_of_line_col(text_of(d), d.completion_pos[1],
                                     d.completion_pos[2])
        lens == IF /\ delta.del = 0
                   /\ delta.start = offset
                   /\ delta.ins <= d.completion_lens
                THEN d.completion_lens - delta.ins
                ELSE d.completion_lens
        new_pos == offset_to_line_col(text_of(d), transform(delta, offset))
    IN [d EXCEPT !.completion_lens = lens, !.completion_pos = new_pos]

\* DocLines::apply_delta
apply_delta(c, delta) ==
  trigger_signals(
    update_folding_display_items(
      update_screen_lines(
        on_update_lines(
          [c EXCEPT !.d = update_completion_lens(c.d, delta)]))))

\* what buffer_edit, update_config, set_completion_lens and
\* update_inline_completion do after a rebuild
AfterRebuild(c) ==
  trigger_signals(
    update_folding_display_items(update_screen_lines(on_update_lines(c))))

\* DocLines::buffer_edit with EditBuffer::EditBuffer
buffer_edit(c, e) ==
  LET old_text == text_of(c.d)
      c1 == [c EXCEPT !.d.signals.buffer =
               [val_mut(c.d.signals.buffer) EXCEPT
                  !.v = Buffer_edit(c.d.signals.buffer.v, e)]]
      line_delta == resolve_delta_rs(old_text, e)
      Edited(c2) ==
        [c2 EXCEPT
           !.d.signals.pristine =
              update_if_not_equal(c2.d.signals.pristine,
                                  buffer(c2.d).pristine),
           !.d.signals.buffer_rev =
              update_if_not_equal(c2.d.signals.buffer_rev,
                                  buffer(c2.d).rev)]
      Then(r) == OrErr(r, AfterRebuild(r.c))
  IN Then(rebuild(Edited(apply_delta(c1, RopeDelta(old_text, e))),
                  line_delta))

\* DocLines::buffer_edit with EditBuffer::SetPristine
set_pristine(c, recv) ==
  IF recv = buffer(c.d).rev
  THEN Returned(
         trigger_signals(
           [c EXCEPT
              !.d.signals.buffer =
                 [val_mut(c.d.signals.buffer) EXCEPT !.v.pristine = TRUE],
              !.d.signals.pristine =
                 update_if_not_equal(c.d.signals.pristine, TRUE)]),
         "Ok(true)")
  ELSE Returned(c, "Ok(false)")


\* Rect::size
size(viewport) ==
  [width |-> viewport.width, height |-> viewport.y1 - viewport.y0]

\* DocLines::update_folding_ranges with UpdateFolding::New and
\* UpdateFolding::UpdateByItem
update_folding_ranges(c, action) ==
  LET c1 == [c EXCEPT !.d.folding_ranges =
               IF action.ty = "New"
               THEN update_ranges(c.d.folding_ranges, action.ranges)
               ELSE update_folding_item(c.d.folding_ranges, action.item)]
      Then(r) ==
        OrErr(r, trigger_signals(
                   update_folding_display_items(update_screen_lines(r.c))))
  IN Then(rebuild(c1, FullDelta))

\* a variant of update_config that goes on after a failed rebuild
update_config_ignoring_error(c, config) ==
  IF c.d.config # config
  THEN LET Ignoring(r) ==
             IF r.kind = "hang" THEN Returned(r.c, "hang")
             ELSE Returned(AfterRebuild(r.c), "Ok")
       IN Ignoring(rebuild([c EXCEPT !.d.config = config], FullDelta))
  ELSE Returned(c, "Ok")

\* DocLines::update_config
update_config(c, config) ==
  IF c.d.config # config
  THEN LET Then(r) == OrErr(r, AfterRebuild(r.c))
       IN Then(rebuild([c EXCEPT !.d.config = config], FullDelta))
  ELSE Returned(c, "Ok")

\* DocLines::set_completion_lens
set_completion_lens(c, completion_lens, line, col) ==
  LET Then(r) == OrErr(r, AfterRebuild(r.c))
  IN Then(rebuild([c EXCEPT !.d.completion_lens = completion_lens,
                            !.d.completion_pos = <<line, col>>],
                  FullDelta))

\* DocLines::clear_completion_lens: the error of the rebuild is logged, and
\* nothing is triggered
clear_completion_lens(c) ==
  LET Logged(r) ==
        IF r.kind = "hang" THEN Returned(r.c, "hang")
        ELSE Returned(
               update_folding_display_items(
                 update_screen_lines(on_update_lines(r.c))),
               "Unit")
  IN Logged(rebuild([c EXCEPT !.d.completion_lens = NoLens], FullDelta))

\* DocLines::update_viewport_size
update_viewport_size(c, viewport) ==
  LET viewport_size == size(viewport)
      should_update ==
        /\ c.d.editor_style.wrap_method = "EditorWidth"
        /\ c.d.viewport_size.width # viewport_size.width
      c1 == IF should_update
            THEN [c EXCEPT !.d.viewport_size = viewport_size]
            ELSE c
      c2 == [c1 EXCEPT !.d.signals.viewport =
               update_if_not_equal(c1.d.signals.viewport, viewport)]
      c3 == IF c1.d.signals.viewport.v # viewport
            THEN update_folding_display_items(update_screen_lines(c2))
            ELSE c2
  IN Returned(trigger_signals(c3), "Ok")

\* DocLines::update_viewport_by_scroll
update_viewport_by_scroll(c, viewport) ==
  IF /\ c.d.signals.viewport.v.y0 = viewport.y0
     /\ c.d.signals.viewport.v.y1 = viewport.y1
     /\ c.d.editor_style.wrap_method # "EditorWidth"
  THEN Returned(c, "Unit")
  ELSE IF c.d.signals.viewport.v # viewport
  THEN Returned(
         trigger_signals(
           update_folding_display_items(
             update_screen_lines(
               [c EXCEPT !.d.signals.viewport =
                  update_if_not_equal(c.d.signals.viewport, viewport)]))),
         "Unit")
  ELSE Returned(c, "Unit")

\* DocLines::update_editor_style: the style read from the view has the
\* given wrap method
update_editor_style(c, wrap_method) ==
  LET updated == c.d.editor_style.wrap_method # wrap_method
      c1 == [c EXCEPT !.d.editor_style.wrap_method = wrap_method]
  IN IF updated
     THEN LET Then(r) == OrErr(r, trigger_signals(r.c))
          IN Then(rebuild(c1, FullDelta))
     ELSE Returned(trigger_signals(c1), "Ok")

\* --------------------------------------------------------------- queries
\* DocLines::folded_line_of_origin_line
folded_line_of_origin_line(d, origin_line) ==
  IF \E i \in 1..Len(d.origin_folded_lines) :
       /\ d.origin_folded_lines[i].origin_line_start <= origin_line
       /\ origin_line <= d.origin_folded_lines[i].origin_line_end
  THEN "Ok" ELSE "Err"

\* DocLines::visual_line_of_folded_line_and_sub_index
visual_line_of_folded_line_and_sub_index(d, folded, sub_index) ==
  IF \E i \in 1..Len(d.visual_lines) :
       /\ d.visual_lines[i].origin_folded_line = folded
       /\ d.visual_lines[i].origin_folded_line_sub_index = sub_index
  THEN "Ok" ELSE "Err"


\* DocLines::last_visual_line: indexes visual_lines at len - 1
last_visual_line(d) ==
  IF Len(d.visual_lines) = 0 THEN {"panic"} ELSE {"Ok"}

\* DocLines::visual_lines, as a query: indexes at len - 1 and reserves
\* end - start + 1 lines
visual_lines_query(d, start, end) ==
  IF Len(d.visual_lines) = 0 THEN {"panic"}
  ELSE IF Min2(start, Len(d.visual_lines) - 1)
          > Min2(end, Len(d.visual_lines) - 1) THEN {"panic"}
  ELSE {"Ok"}

\* DocLines::next_visual_line: indexes visual_lines at
\* min(visual_line_index, len - 2) + 1; with fewer than two visual lines
\* len - 2 overflows (checked build) or wraps and the index is out of range
next_visual_line(d, visual_line_index, line_offset) ==
  IF Len(d.visual_lines) < 2 THEN {"panic"}
  ELSE LET next == d.visual_lines[
                     Min2(visual_line_index, Len(d.visual_lines) - 2) + 2]
       IN IF next.origin_folded_line >= Len(d.origin_folded_lines)
          THEN {"panic"} ELSE {"Ok"}

\* DocLines::previous_visual_line: glyphs.len() - 1 of an empty sub-line
\* overflows in a checked build and wraps in an unchecked one
previous_visual_line(d, visual_line_index, line_offset) ==
  LET i == Max2(visual_line_index, 1) - 1
  IN IF i >= Len(d.visual_lines) THEN {"Err"}
     ELSE LET prev == d.visual_lines[i + 1]
          IN IF prev.origin_folded_line >= Len(d.origin_folded_lines)
             THEN {"Err"}
             ELSE LET fl == d.origin_folded_lines[prev.origin_folded_line + 1]
                      layout == fl.text_layout.text.line_layout
                      sub == prev.origin_folded_line_sub_index
                  IN IF sub < Len(layout) /\ layout[sub + 1] = 0
                     THEN {"panic", "Ok"} ELSE {"Ok"}

RECURSIVE SubLineOf(_, _, _)
\* the loop of visual_line_of_final_offset: the first sub-line, from index
\* on, that the rest of the final offset fits in, else the last one
SubLineOf(layout, index, final_offset_line) ==
  IF index >= Len(layout) THEN Len(layout) - 1
  ELSE IF final_offset_line <= layout[index + 1] THEN index
  ELSE SubLineOf(layout, index + 1, final_offset_line - layout[index + 1])

\* DocLines::visual_line_of_offset, with
\* OriginFoldedLine::visual_line_of_line_and_offset and
\* visual_line_of_final_offset, which panics behind the end of the text
visual_line_of_offset(d, offset) ==
  LET b == text_of(d)
      origin_line == line_of_offset(b, offset)
      col == offset - offset_of_line(b, origin_line)
      hits == { i \in 1..Len(d.origin_folded_lines) :
                  /\ d.origin_folded_lines[i].origin_line_start <= origin_line
                  /\ origin_line <= d.origin_folded_lines[i].origin_line_end }
  IN IF hits = {} THEN {"Err"}
     ELSE LET fl == d.origin_folded_lines[
                      CHOOSE i \in hits : \A j \in hits : i <= j]
              layout == fl.text_layout.text.line_layout
              final_offset == final_col_of_col(fl.text_layout.phantom_text,
                                               origin_line, col, TRUE)
          IN IF final_offset > fl.text_layout.text.text_len THEN {"panic"}
             ELSE { visual_line_of_folded_line_and_sub_index(
                      d, fl.line_index, SubLineOf(layout, 0, final_offset)) }


\* ---------------------------------------------------------- the machine
VARIABLES
  lines,      \* the DocLines value
  sets,       \* per signal, the values the last call set it to, in order
  last_call,  \* the last call: its name, what it returned, how its rebuild went
  fold_trip,  \* a range collapsed and expanded again by consecutive calls
  calls       \* the number of calls so far

vars == <<lines, sets, last_call, fold_trip, calls>>

\* the inputs of the calls
InitTexts == { <<0>>, <<2, 1, 1>> }
InitViewport == [y0 |-> 0, y1 |-> 3 * LineHeight, width |-> 4]
InitConfig == [enable_completion_lens |-> TRUE, enable_error_lens |-> TRUE,
               enable_inline_completion |-> TRUE, line_height |-> LineHeight]
Viewports ==
  { InitViewport,
    [y0 |-> LineHeight, y1 |-> 3 * LineHeight, width |-> 2] }
WrapMethods == {"None", "EditorWidth"}
Configs == { [enable_completion_lens |-> e, enable_error_lens |-> TRUE,
              enable_inline_completion |-> TRUE, line_height |-> LineHeight]
             : e \in BOOLEAN }
LensTexts == {1}
Items ==
  { [ty |-> ty, line |-> r.sl, character |-> r.sc]
    : ty \in {"UnfoldStart", "Folded"}, r \in {RangeA, RangeB, RangeC} }
  \cup { [ty |-> "UnfoldEnd", line |-> r.el, character |-> r.ec]
         : r \in {RangeA, RangeB, RangeC} }
Edits(b) ==
  { e \in [kind : EditKinds, line : 0..(MaxLines - 1), col : 0..MaxLineLen]
      : CanEdit(b, e) }

\* DocLines::new
DocLines_new(text, viewport, wrap_method, config) ==
  LET buf == [text |-> text, rev |-> 0, pristine |-> TRUE]
      d0 == [signals |->
               [viewport |-> SignalManager_new(viewport),
                folding_items |-> SignalManager_new({}),
                screen_lines |-> SignalManager_new(ScreenLines_new(viewport)),
                buffer_rev |-> SignalManager_new(buf.rev),
                buffer |-> SignalManager_new(buf),
                last_line |-> SignalManager_new(last_line(text) + 1),
                pristine |-> SignalManager_new(buf.pristine)],
             viewport_size |-> size(viewport),
             config |-> config,
             editor_style |-> [wrap_method |-> wrap_method],
             origin_lines |-> <<>>,
             origin_folded_lines |-> <<>>,
             visual_lines |-> <<>>,
             max_width |-> 0,
             completion_pos |-> <<0, 0>>,
             folding_ranges |-> {},
             completion_lens |-> NoLens,
             inline_completion |-> <<>>,
             style_from_lsp |-> FALSE,
             syntax |-> <<>>,
             semantic_styles |-> <<>>,
             diagnostics |-> <<>>,
             line_height |-> 0]
  IN update_lines_new(d0, FullDelta).d

NoTrip == [stage |-> "none"]

Init ==
  /\ \E text \in InitTexts, wrap_method \in WrapMethods :
       lines = DocLines_new(text, InitViewport, wrap_method, InitConfig)
  /\ sets = NoSets
  /\ last_call = [name |-> "new", result |-> "Ok", rebuild |-> "ok"]
  /\ fold_trip = NoTrip
  /\ calls = 0

\* a call starts with nothing set yet
Call == [d |-> lines, sets |-> NoSets, rebuild |-> "none"]

\* a call that came back: the machine takes what it left
Return(name, r) ==
  /\ calls < MaxCalls
  /\ calls' = calls + 1
  /\ r.result # "hang"
  /\ lines' = r.d
  /\ sets' = r.sets
  /\ last_call' = [name |-> name, result |-> r.result, rebuild |-> r.rebuild]

EditBuffer ==
  /\ \E e \in Edits(text_of(lines)) : Return("buffer_edit", buffer_edit(Call, e))
  /\ fold_trip' = NoTrip

SetPristine ==
  /\ \E recv \in 0..MaxCalls : Return("set_pristine", set_pristine(Call, recv))
  /\ fold_trip' = NoTrip

UpdateFoldingRangesNew ==
  /\ \E ranges \in RangeSets :
       Return("update_folding_ranges",
              update_folding_ranges(Call, [ty |-> "New", ranges |-> ranges]))
  /\ fold_trip' = NoTrip

\* the one range an item clicks, if it clicks exactly one
Clicked(fr, item) ==
  { r \in fr : WithStatus(r, click(r.status)) \in update_folding_item(fr, item)
               /\ r \notin update_folding_item(fr, item) }

UpdateFoldingRangesByItem ==
  \E item \in Items :
    LET hit == Clicked(lines.folding_ranges, item)
        UpToDate(full) ==
          /\ full.kind = "ok"
          /\ full.d.visual_lines = lines.visual_lines
    IN /\ Return("update_folding_ranges",
                 update_folding_ranges(Call, [ty |-> "UpdateByItem",
                                              item |-> item]))
       /\ fold_trip' =
            IF Cardinality(hit) # 1 THEN NoTrip
            ELSE LET range == CHOOSE q \in hit : TRUE
                 IN IF range.status = "Unfold"
                    THEN [stage |-> "collapsed", range |-> Bounds(range),
                          up_to_date |->
                            UpToDate(update_lines_new(lines, FullDelta)),
                          visual_lines |-> lines.visual_lines,
                          origin_folded_lines |-> lines.origin_folded_lines]
                    ELSE IF /\ fold_trip.stage = "collapsed"
                            /\ fold_trip.range = Bounds(range)
                            /\ last_call'.result = "Ok"
                    THEN [fold_trip EXCEPT !.stage = "expanded"]
                    ELSE NoTrip

UpdateConfig ==
  /\ \E config \in Configs : Return("update_config", update_config(Call, config))
  /\ fold_trip' = NoTrip

SetCompletionLens ==
  /\ \E len \in LensTexts, line \in 0..last_line(text_of(lines)) :
       \E col \in 0..text_of(lines)[line + 1] :
         Return("set_completion_lens", set_completion_lens(Call, len, line, col))
  /\ fold_trip' = NoTrip

ClearCompletionLens ==
  /\ Return("clear_completion_lens", clear_completion_lens(Call))
  /\ fold_trip' = NoTrip

UpdateViewportSize ==
  /\ \E viewport \in Viewports :
       Return("update_viewport_size", update_viewport_size(Call, viewport))
  /\ fold_trip' = NoTrip

UpdateViewportByScroll ==
  /\ \E viewport \in Viewports :
       Return("update_viewport_by_scroll",
              update_viewport_by_scroll(Call, viewport))
  /\ fold_trip' = NoTrip

UpdateEditorStyle ==
  /\ \E wrap_method \in WrapMethods :
       Return("update_editor_style", update_editor_style(Call, wrap_method))
  /\ fold_trip' = NoTrip

Next ==
  \/ EditBuffer
  \/ SetPristine
  \/ UpdateFoldingRangesNew
  \/ UpdateFoldingRangesByItem
  \/ UpdateConfig
  \/ SetCompletionLens
  \/ ClearCompletionLens
  \/ UpdateViewportSize
  \/ UpdateViewportByScroll
  \/ UpdateEditorStyle

Spec == Init /\ [][Next]_vars


\* ---------------------------------------------------------------- claims
\* the three line tiers
Layout(d) == <<d.origin_lines, d.origin_folded_lines, d.visual_lines>>

\* what a rebuild of everything makes of the inputs as they are now
FullRebuild == update_lines_new(lines, FullDelta)

\* C1: after an edit through buffer_edit the incremental rebuild ended as a
\* full rebuild of the edited buffer would, and if it built lines, they are,
\* element for element, the lines the full rebuild builds.
C1_IncrementalEqualsFull ==
  last_call.name = "buffer_edit" =>
    /\ last_call.rebuild = FullRebuild.kind
    /\ last_call.rebuild = "ok" => Layout(lines) = Layout(FullRebuild.d)

\* the folded lines that hold an origin line
FoldedLinesOf(d, origin_line) ==
  { i \in 1..Len(d.origin_folded_lines) :
      /\ d.origin_folded_lines[i].origin_line_start <= origin_line
      /\ origin_line <= d.origin_folded_lines[i].origin_line_end }

FoldedPartition(d) ==
  LET f == d.origin_folded_lines
  IN /\ Len(f) >= 1
     /\ f[1].origin_line_start = 0
     /\ f[Len(f)].origin_line_end = last_line(text_of(d))
     /\ \A i \in 1..Len(f) :
          /\ f[i].line_index = i - 1
          /\ f[i].origin_line_start <= f[i].origin_line_end
          /\ i > 1 => f[i].origin_line_start = f[i - 1].origin_line_end + 1
     /\ \A l \in 0..last_line(text_of(d)) :
          Cardinality(FoldedLinesOf(d, l)) = 1

\* C2: after every rebuild the folded lines partition the origin lines:
\* they start at line 0, follow each other without gap or overlap, end at
\* the last line of the buffer, carry their position as line_index, and
\* every origin line lies in exactly one of them.
C2_FoldedLinesPartition ==
  last_call.rebuild = "ok" => FoldedPartition(lines)

\* the places in visual_lines of the visual lines of a folded line
VisualLinesOfFolded(d, folded_index) ==
  { i \in 1..Len(d.visual_lines) :
      d.visual_lines[i].origin_folded_line = folded_index }

VisualPerSubLine(d) ==
  /\ \A i \in 1..Len(d.visual_lines) : d.visual_lines[i].line_index = i - 1
  /\ \A k \in 1..Len(d.origin_folded_lines) :
       LET layout == d.origin_folded_lines[k].text_layout.text.line_layout
           at == VisualLinesOfFolded(d, d.origin_folded_lines[k].line_index)
       IN /\ Cardinality(at) = Len(layout)
          /\ \E first \in 1..Len(d.visual_lines) :
               /\ at = first..(first + Len(layout) - 1)
               /\ \A sub \in 0..(Len(layout) - 1) :
                    LET v == d.visual_lines[first + sub]
                    IN /\ v.origin_folded_line_sub_index = sub
                       /\ v.visual_interval.start
                            = SumOf(SubSeq(layout, 1, sub))
                       /\ v.visual_interval.end
                            = v.visual_interval.start + layout[sub + 1]

ColumnsOf(pt, k) ==
  0..(pt.lines[k].len - (IF k = Len(pt.lines) THEN 0 ELSE 1))

RoundTrip(pt) ==
  \A k \in 1..Len(pt.lines) :
    \A col \in ColumnsOf(pt, k) :
      LET line == pt.lines[k].line
          final_col == col_at(pt, merge_col_of(pt, line, col))
      IN final_col # NoLine =>
           /\ final_col = final_col_of_col(pt, line, col, TRUE)
           /\ cursor_position_of_final_col(pt, final_col)
                = <<line, col, pt.lines[k].offset_of_line + col>>

C4_ColumnRoundTrip ==
  \A i \in 1..Len(lines.origin_folded_lines) :
    RoundTrip(lines.origin_folded_lines[i].text_layout.phantom_text)

\* C5: a range collapsed and, by the next call, expanded again leaves the
\* visual lines and the folded lines that were there before the collapse.
C5_FoldUnfoldRestores ==
  fold_trip.stage = "expanded" =>
    /\ lines.visual_lines = fold_trip.visual_lines
    /\ lines.origin_folded_lines = fold_trip.origin_folded_lines

\* what the queries do in the layout as it is, over all their arguments
QueryOutcomes ==
  UNION { { folded_line_of_origin_line(lines, i),
            visual_line_of_folded_line_and_sub_index(lines, i, j) }
          \cup last_visual_line(lines)
          \cup visual_lines_query(lines, i, i + j)
          \cup next_visual_line(lines, i, j)
          \cup previous_visual_line(lines, i, j)
          \cup visual_line_of_offset(lines, i + j)
          : i \in 0..(MaxLines + 1), j \in 0..(MaxLineLen + 1) }

\* C6: no lookup or navigation query panics, whatever its arguments and
\* whatever the layout: each returns a result or a typed failure.
C6_QueriesNeverPanic == "panic" \notin QueryOutcomes


C8_SignalsPublishedOnce ==
  \A n \in SignalNames :
    /\ Len(sets[n]) <= 1
    /\ ~lines.signals[n].dirty
    /\ lines.signals[n].signal = lines.signals[n].v

\* C9: after every call, if a rebuild of everything from the inputs as they
\* are now builds lines, these are the stored lines.
C9_LinesFollowInputs ==
  last_call.name # "new" /\ FullRebuild.kind = "ok" =>
    Layout(lines) = Layout(FullRebuild.d)

\* C10: after every call that rebuilt the lines the stored screen lines
\* are the screen lines of the visual lines and the viewport as they are
\* now: no call rebuilds the visual lines and leaves the screen lines of
\* the ones before.
C10_ScreenLinesDerived ==
  last_call.name # "new" /\ last_call.rebuild = "ok" =>
    lines.signals.screen_lines.v
      = _compute_screen_lines(lines, lines.signals.viewport.v)


MaxDeltas == 2

RECURSIVE Deltas(_, _)
\* the response of the edits es applied one after the other to the text b
Deltas(b, es) ==
  IF es = <<>> THEN <<>>
  ELSE <<[text |-> b, e |-> es[1]]>> \o Deltas(EditText(b, es[1]), Tail(es))

RECURSIVE EditAll(_, _)
\* the buffer after all the edits
EditAll(buf, es) ==
  IF es = <<>> THEN buf ELSE EditAll(Buffer_edit(buf, es[1]), Tail(es))

RECURSIVE ApplyDeltas(_, _)
\* for delta in &*response { self.apply_delta(&delta.1)?; }
ApplyDeltas(c, deltas) ==
  IF deltas = <<>> THEN c
  ELSE ApplyDeltas(apply_delta(c, RopeDelta(deltas[1].text, deltas[1].e)),
                   Tail(deltas))

\* what resolve_delta_rs hands back: the window of the edit, the default
\* delta when it does not recognise the shape of the delta, or an error
Resolutions == {"Window", "Default", "Err"}

resolve_delta_rs_result(old_text, e, resolution) ==
  CASE resolution = "Err" -> [kind |-> "Err"]
    [] resolution = "Default" -> [kind |-> "Ok", delta |-> FullDelta]
    [] OTHER -> [kind |-> "Ok", delta |-> resolve_delta_rs(old_text, e)]

\* a variant of _compute_change_lines that resolves the first delta of a
\* response and leaves the others out
_compute_change_lines_first(deltas, resolution) ==
  IF Len(deltas) >= 1
  THEN resolve_delta_rs_result(deltas[1].text, deltas[1].e, resolution)
  ELSE [kind |-> "Ok", delta |-> FullDelta]

\* DocLines::_compute_change_lines
_compute_change_lines(deltas, resolution) ==
  IF Len(deltas) = 1
  THEN resolve_delta_rs_result(deltas[1].text, deltas[1].e, resolution)
  ELSE [kind |-> "Ok", delta |-> FullDelta]

\* DocLines::do_insert_buffer, that is DocLines::buffer_edit with
\* EditBuffer::DoInsertBuffer: the edits are made in the buffer, every
\* delta of the response is applied, and the lines are rebuilt by the delta
\* that _compute_change_lines hands back
do_insert_buffer(c, es, resolution) ==
  LET deltas == Deltas(text_of(c.d), es)
      c1 == [c EXCEPT !.d.signals.buffer =
               [val_mut(c.d.signals.buffer) EXCEPT
                  !.v = EditAll(c.d.signals.buffer.v, es)]]
      Edited(c2) ==
        [c2 EXCEPT
           !.d.signals.pristine =
              update_if_not_equal(c2.d.signals.pristine,
                                  buffer(c2.d).pristine),
           !.d.signals.buffer_rev =
              update_if_not_equal(c2.d.signals.buffer_rev,
                                  buffer(c2.d).rev)]
      Then(r) == OrErr(r, AfterRebuild(r.c))
      Resolved(c2, line_delta) ==
        IF line_delta.kind = "Err" THEN Returned(c2, "Err")
        ELSE Then(rebuild(Edited(c2), line_delta.delta))
  IN Resolved(ApplyDeltas(c1, deltas),
              _compute_change_lines(deltas, resolution))

\* the responses of one logical edit: one edit of any kind, or a character
\* put in or taken out on each of up to MaxDeltas lines (none included)
CharEdits(b) == { e \in Edits(b) : e.kind \in {"InsertChar", "DeleteChar"} }

MultiEdits(b) ==
  { <<e>> : e \in Edits(b) }
  \cup { es \in UNION { [1..n -> CharEdits(b)] : n \in 0..MaxDeltas } :
           \A i \in 1..Len(es), j \in 1..Len(es) :
             i < j => es[i].line < es[j].line }

\* no delta: the resolver failed
NoDelta == [none |-> TRUE]

\* DocLines::do_insert_buffer called: the call record keeps the response,
\* what the resolver handed back and the delta the rebuild was given.  The
\* edit is the last call of a behaviour.
DoInsertBuffer ==
  \E es \in MultiEdits(text_of(lines)), resolution \in Resolutions :
    LET Came(r, line_delta) ==
          /\ calls < MaxCalls
          /\ calls' = MaxCalls
          /\ r.result # "hang"
          /\ lines' = r.d
          /\ sets' = r.sets
          /\ last_call' =
               [name |-> "do_insert_buffer", result |-> r.result,
                rebuild |-> r.rebuild, edits |-> es,
                resolution |-> resolution,
                line_delta |-> IF line_delta.kind = "Err" THEN NoDelta
                               ELSE line_delta.delta]
          /\ fold_trip' = NoTrip
    IN Came(do_insert_buffer(Call, es, resolution),
            _compute_change_lines(Deltas(text_of(lines), es), resolution))

NextEdits ==
  \/ DoInsertBuffer
  \/ UpdateFoldingRangesNew
  \/ UpdateFoldingRangesByItem
  \/ SetCompletionLens

SpecEdits == Init /\ [][NextEdits]_vars

\* the lines a rebuild by line_delta lays out anew, of n lines
RebuiltLines(line_delta, n) ==
  IF line_delta.full THEN 0..(n - 1)
  ELSE line_delta.first..(line_delta.new_end - 1)

\* the window that holds the lines the edits touch
TouchedLines(es) ==
  LET touched == { es[i].line : i \in 1..Len(es) }
  IN { l \in 0..(MaxLines - 1) :
         /\ \E t \in touched : t <= l
         /\ \E t \in touched : l <= t }

C12_UnresolvedEditRebuildsAll ==
  /\ last_call.name = "do_insert_buffer"
  /\ Len(last_call.edits) = 1
  /\ last_call.resolution # "Window"
  => /\ last_call.line_delta = FullDelta
     /\ last_call.rebuild # "none"


\* ------------------------------------------------------ collapsed ranges
\* the collapsed ranges of d, and whether one lies in the text as it is
Collapsed(d) == { r \in d.folding_ranges : r.status = "Fold" }

InText(r, b) ==
  /\ r.el <= last_line(b)
  /\ r.sc <= b[r.sl + 1]
  /\ r.ec <= b[r.el + 1]

RECURSIVE ChainFrom(_, _)
\* the collapsed ranges chained from r on: the next one starts on the line
\* the one before ends on
ChainFrom(folded, r) ==
  IF \E q \in folded : q.sl = r.el /\ q # r
  THEN <<r>> \o ChainFrom(folded \ {r}, CHOOSE q \in folded : q.sl = r.el /\ q # r)
  ELSE <<r>>

\* the length of the text a chain is rendered as: the first line up to the
\* start of the first range, a placeholder for every range, the text
\* between one range and the next, and the last line from the end of the
\* last range on
RenderedLen(chain, b, placeholder) ==
  LET n == Len(chain)
  IN chain[1].sc + n * placeholder
     + SumOf([i \in 1..(n - 1) |-> chain[i + 1].sc - chain[i].ec])
     + line_len(b, chain[n].el) - chain[n].ec

\* what collapsing makes of the lines, with placeholders of the given length
FoldedAsRendered(d, placeholder) ==
  LET b == text_of(d)
      folded == Collapsed(d)
      heads == { r \in folded : ~\E q \in folded : q.el = r.sl /\ q # r }
  IN /\ \A r \in heads :
          LET chain == ChainFrom(folded, r)
          IN \E k \in 1..Len(d.origin_folded_lines) :
               LET fl == d.origin_folded_lines[k]
                   pt == fl.text_layout.phantom_text
               IN /\ fl.origin_line_start = r.sl
                  /\ fl.origin_line_end = chain[Len(chain)].el
                  /\ pt.final_text_len = RenderedLen(chain, b, placeholder)
                  /\ Cardinality({ i \in 1..Len(pt.text) :
                                     pt.text[i].tlen > 0 }) = Len(chain)
     /\ \A l \in 0..last_line(b) :
          (~\E r \in folded : r.sl <= l /\ l <= r.el) =>
            \E k \in 1..Len(d.origin_folded_lines) :
              /\ d.origin_folded_lines[k].origin_line_start = l
              /\ d.origin_folded_lines[k].origin_line_end = l

\* update_folding_ranges has rebuilt the lines of a text its collapsed
\* ranges lie in, with no completion lens shown
AfterCollapse ==
  /\ last_call.name = "update_folding_ranges"
  /\ last_call.rebuild = "ok"
  /\ lines.completion_lens = NoLens
  /\ \A r \in Collapsed(lines) : InText(r, text_of(lines))

\* C13: collapsing a range from line s to line e > s makes one folded line
\* of the lines s..e, rendered as line s up to the start of the range, the
\* placeholder "..." of three characters, and line e from the end of the
\* range on; ranges chained on a line make one folded line, and a line
\* outside every collapsed range has a folded line of its own.
C13_CollapseRendersEllipsis == AfterCollapse => FoldedAsRendered(lines, 3)

\* C13, amended: the same, with the placeholder "{...}" of PlaceholderLen
\* characters.
C13_CollapseRendersPlaceholder ==
  AfterCollapse => FoldedAsRendered(lines, PlaceholderLen)

\* two ranges chained on line 1 are collapsed: lines 0..2 are one folded line
C13_Witness ==
  /\ AfterCollapse
  /\ Cardinality(Collapsed(lines)) = 2
  /\ Len(lines.origin_folded_lines) = 1
  /\ lines.origin_folded_lines[1].origin_line_end = 2

\* --------------------------------------------------------------- styles
\* A semantic style is an interval of buffer offsets; a diagnostic is an
\* interval with the severity the language server gave it, if any.
UsizeBits == 16
MaxStyleCalls == 1
Severities == {"ERROR", "WARNING", "INFORMATION", "HINT", "None"}
MaxSpanLen == 2

\* DiagnosticSeverity orders ERROR < WARNING < INFORMATION < HINT
SeverityRank(severity) ==
  CASE severity = "ERROR" -> 1
    [] severity = "WARNING" -> 2
    [] severity = "INFORMATION" -> 3
    [] OTHER -> 4

\* usize arithmetic that went below zero wraps in a build without overflow
\* checks
Usize(n) == n % (2 ^ UsizeBits)

\* EditorConfig::color_of_diagnostic: every severity above HINT has a colour
color_of_diagnostic(severity) ==
  IF SeverityRank(severity) < SeverityRank("HINT") THEN severity ELSE "None"

\* DocLines::_get_line_semantic_styles: the styles the language server sent
\* once it has sent some, those of the syntax before
_get_line_semantic_styles(d, origin_line, line_start, line_end) ==
  LET styles == IF d.style_from_lsp THEN d.semantic_styles ELSE d.syntax
      Kept(s) == line_start <= s.start /\ s.end < line_end
      kept == SelectSeq(styles, Kept)
  IN [i \in 1..Len(kept) |->
        [origin_line |-> origin_line,
         origin_line_offset_start |-> kept[i].start - line_start,
         len |-> kept[i].end - kept[i].start,
         start_of_buffer |-> kept[i].start,
         end_of_buffer |-> kept[i].end,
         folded_line_offset_start |-> kept[i].start - line_start,
         folded_line_offset_end |-> kept[i].end - line_start]]

\* the diagnostics get_line_diagnostic_styles_2 makes a style of
DiagnosticKept(diag, start_offset, end_offset) ==
  /\ diag.severity # "None"
  /\ diag.start <= end_offset
  /\ start_offset <= diag.end
  /\ SeverityRank(diag.severity) < SeverityRank("HINT")
  /\ color_of_diagnostic(diag.severity) # "None"

\* DocLines::get_line_diagnostic_styles_2
get_line_diagnostic_styles_2(d, origin_line, start_offset, end_offset) ==
  IF ~d.config.enable_error_lens THEN <<>>
  ELSE LET Kept(diag) == DiagnosticKept(diag, start_offset, end_offset)
           kept == SelectSeq(d.diagnostics, Kept)
       IN [i \in 1..Len(kept) |->
             [origin_line |-> origin_line,
              origin_line_offset_start |-> Usize(kept[i].start - start_offset),
              len |-> kept[i].end - kept[i].start,
              start_of_buffer |-> start_offset,
              end_of_buffer |-> end_offset,
              fg_color |-> color_of_diagnostic(kept[i].severity),
              folded_line_offset_start |-> Usize(kept[i].start - start_offset),
              folded_line_offset_end |-> kept[i].end - start_offset]]

\* start - start_offset goes below zero: a build with overflow checks
\* panics there
Underflows(d) ==
  /\ d.config.enable_error_lens
  /\ \E line \in 0..last_line(text_of(d)), i \in 1..Len(d.diagnostics) :
       /\ DiagnosticKept(d.diagnostics[i], offset_of_line(text_of(d), line),
                         offset_of_line(text_of(d), line + 1))
       /\ d.diagnostics[i].start < offset_of_line(text_of(d), line)

\* the style fields init_origin_line gives an origin line
OriginLineSemantic(d, ol) ==
  _get_line_semantic_styles(d, ol.line_index, ol.start_offset,
                            ol.start_offset + ol.len)
OriginLineDiagnostic(d, ol) ==
  get_line_diagnostic_styles_2(d, ol.line_index, ol.start_offset,
                               ol.start_offset + ol.len)

\* a variant of semantic_styles that leaves the styles where they are
semantic_styles_unmoved(styles, delta) == styles

\* OriginLine::semantic_styles and OriginLine::diagnostic_styles
semantic_styles(styles, delta) ==
  [i \in 1..Len(styles) |->
     [styles[i] EXCEPT
        !.origin_line_offset_start = Usize(@ + delta)]]

RECURSIVE MergedStyles(_, _, _)
\* the styles new_text_layout_2 hands back with a folded line: those of its
\* first origin line, then those of each line merged into it, moved by the
\* origin text merged before; kind is "semantic" or "diagnostic"
MergedStyles(d, merged, kind) ==
  IF merged = <<>> THEN <<>>
  ELSE LET ol == d.origin_lines[merged[1].line + 1]
           own == IF kind = "semantic" THEN OriginLineSemantic(d, ol)
                  ELSE OriginLineDiagnostic(d, ol)
       IN semantic_styles(own, merged[1].merge_off)
            \o MergedStyles(d, Tail(merged), kind)

\* the styles of a folded line
FoldedLineStyles(d, fl, kind) ==
  MergedStyles(d, fl.text_layout.phantom_text.lines, kind)

\* DocLines::update_semantic_styles_from_lsp
update_semantic_styles_from_lsp(c, styles, rev) ==
  IF buffer(c.d).rev # rev THEN Returned(c, "Ok(false)")
  ELSE LET c1 == [c EXCEPT !.d.style_from_lsp = TRUE,
                           !.d.semantic_styles = styles]
           Then(r) ==
             OrErr(r, trigger_signals(
                        update_folding_display_items(
                          update_screen_lines(on_update_lines(r.c)))))
       IN Then(rebuild(c1, FullDelta))

\* DocLines::init_diagnostics, the diagnostics of the server given by their
\* offsets
init_diagnostics(c, diags) ==
  LET c1 == [c EXCEPT !.d.diagnostics = diags]
      Then(r) ==
        OrErr(r, update_folding_display_items(
                   update_screen_lines(on_update_lines(r.c))))
  IN Then(rebuild(c1, FullDelta))

\* the inputs of the style calls
Intervals(b) ==
  { iv \in [start : 0..buffer_len(b), end : 0..buffer_len(b)]
      : iv.start < iv.end /\ iv.end - iv.start <= MaxSpanLen }
StyleSets(b) ==
  { <<>> } \cup { <<iv>> : iv \in Intervals(b) }
  \cup { <<p[1], p[2]>> : p \in { q \in Intervals(b) \X Intervals(b)
                                    : q[1].end <= q[2].start } }
DiagSets(b) ==
  { <<>> }
  \cup { << [start |-> iv.start, end |-> iv.end, severity |-> sev] >>
         : iv \in Intervals(b), sev \in Severities }
StyleTexts == { <<2, 1, 1>> }

InitStyles ==
  /\ \E text \in StyleTexts, lens \in BOOLEAN :
       lines = DocLines_new(text, InitViewport, "None",
                            [InitConfig EXCEPT !.enable_error_lens = lens])
  /\ sets = NoSets
  /\ last_call = [name |-> "new", result |-> "Ok", rebuild |-> "ok"]
  /\ fold_trip = NoTrip
  /\ calls = 0

\* the deliveries of styles and diagnostics so far
StyleCalls(d) ==
  (IF d.style_from_lsp THEN 1 ELSE 0)
    + (IF d.diagnostics # <<>> THEN 1 ELSE 0)

UpdateSemanticStylesFromLsp ==
  /\ StyleCalls(lines) < MaxStyleCalls
  /\ \E styles \in StyleSets(text_of(lines)), rev \in 0..1 :
       Return("update_semantic_styles_from_lsp",
              update_semantic_styles_from_lsp(Call, styles, rev))
  /\ fold_trip' = NoTrip

\* init_diagnostics came back, or the build checks overflow and it
\* panicked in the rebuild
InitDiagnostics ==
  /\ StyleCalls(lines) < MaxStyleCalls
  /\ \E diags \in DiagSets(text_of(lines)), overflow_checks \in BOOLEAN :
       IF overflow_checks /\ Underflows([lines EXCEPT !.diagnostics = diags])
       THEN /\ calls < MaxCalls
            /\ calls' = MaxCalls
            /\ lines' = [lines EXCEPT !.diagnostics = diags]
            /\ sets' = NoSets
            /\ last_call' = [name |-> "init_diagnostics",
                             result |-> "panic", rebuild |-> "none"]
       ELSE Return("init_diagnostics", init_diagnostics(Call, diags))
  /\ fold_trip' = NoTrip

NextStyles ==
  \/ UpdateSemanticStylesFromLsp
  \/ InitDiagnostics
  \/ UpdateFoldingRangesNew
  \/ UpdateFoldingRangesByItem

SpecStyles == InitStyles /\ [][NextStyles]_vars


\* ------------------------------------------------------------ revisions
\* Results that were computed for one revision of the buffer come back with
\* that revision.
SyntaxSets(b) == { <<>>, <<[start |-> 0, end |-> 1]>> }

\* DocLines::set_syntax
set_syntax(c, syntax) ==
  LET c1 == [c EXCEPT !.d.syntax = syntax]
      Then(r) == OrErr(r, AfterRebuild(r.c))
  IN IF c1.d.style_from_lsp THEN Returned(c1, "Ok(false)")
     ELSE LET r == Then(rebuild(c1, FullDelta))
          IN IF r.result = "Ok" THEN [r EXCEPT !.result = "Ok(true)"] ELSE r

\* a variant of set_syntax_with_rev that takes the syntax of any revision
set_syntax_with_rev_unchecked(c, syntax, rev) == set_syntax(c, syntax)

\* DocLines::set_syntax_with_rev
set_syntax_with_rev(c, syntax, rev) ==
  IF buffer(c.d).rev # rev THEN Returned(c, "Ok(false)")
  ELSE set_syntax(c, syntax)

SetSyntaxWithRev ==
  /\ \E syntax \in SyntaxSets(text_of(lines)), rev \in 0..MaxCalls :
       Return("set_syntax_with_rev", set_syntax_with_rev(Call, syntax, rev))
  /\ fold_trip' = NoTrip

NextRevs ==
  \/ EditBuffer
  \/ SetPristine
  \/ SetSyntaxWithRev
  \/ UpdateSemanticStylesFromLsp

SpecRevs == InitStyles /\ [][NextRevs]_vars

\* what a call with a revision leaves when the revision is not the buffer's
Discarded(r) ==
  /\ r.result = "Ok(false)"
  /\ r.d = lines
  /\ r.sets = NoSets
  /\ r.rebuild = "none"

\* C21: set_pristine, set_syntax_with_rev and update_semantic_styles_from_lsp
\* called with a revision that is not the buffer's current one return false
\* and change nothing: not the pristine flag, the syntax, the semantic
\* styles, style_from_lsp, the line arrays or the published signals.
C21_StaleRevisionDiscarded ==
  \A rev \in 0..(MaxCalls + 1) :
    rev # buffer(lines).rev =>
      /\ Discarded(set_pristine(Call, rev))
      /\ \A syntax \in SyntaxSets(text_of(lines)) :
           Discarded(set_syntax_with_rev(Call, syntax, rev))
      /\ \A styles \in StyleSets(text_of(lines)) :
           Discarded(update_semantic_styles_from_lsp(Call, styles, rev))

\* a response computed for revision 0 came back after an edit and was
\* answered with false
C21_Witness ==
  /\ buffer(lines).rev > 0
  /\ ~buffer(lines).pristine
  /\ last_call.name \in {"set_pristine", "set_syntax_with_rev",
                         "update_semantic_styles_from_lsp"}
  /\ last_call.result = "Ok(false)"
  /\ last_call.rebuild = "none"
  /\ sets = NoSets

\* the folded lines that merge several origin lines
MergedFolded(d) ==
  { i \in 1..Len(d.origin_folded_lines) :
      Len(d.origin_folded_lines[i].text_layout.phantom_text.lines) > 1 }

\* the styles of the origin lines of a folded line one after the other,
\* each moved by the origin text of the lines before it in the folded line
RECURSIVE ShiftedInOrder(_, _, _, _)
ShiftedInOrder(d, merged, kind, before) ==
  IF merged = <<>> THEN <<>>
  ELSE LET ol == d.origin_lines[merged[1].line + 1]
           own == IF kind = "semantic" THEN OriginLineSemantic(d, ol)
                  ELSE OriginLineDiagnostic(d, ol)
       IN [i \in 1..Len(own) |->
             [own[i] EXCEPT !.origin_line_offset_start =
                              Usize(own[i].origin_line_offset_start + before)]]
          \o ShiftedInOrder(d, Tail(merged), kind, before + ol.len)

\* C14: the styles of a folded line are the styles of its origin lines in
\* merge order, each moved by the origin text length of the lines merged
\* before it; the styles of the first line, and of a line on its own, stay
\* at their line-relative start.
C14_MergedStylesShifted ==
  last_call.result # "panic" /\ last_call.rebuild # "err" =>
    \A i \in 1..Len(lines.origin_folded_lines), kind \in {"semantic", "diagnostic"} :
      FoldedLineStyles(lines, lines.origin_folded_lines[i], kind)
        = ShiftedInOrder(lines,
            lines.origin_folded_lines[i].text_layout.phantom_text.lines,
            kind, 0)

\* a folded line merges lines 0 and 1, and line 1 has a semantic style
C14_Witness ==
  /\ last_call.result = "Ok"
  /\ \E i \in MergedFolded(lines) :
       LET fl == lines.origin_folded_lines[i]
           styles == FoldedLineStyles(lines, fl, "semantic")
       IN /\ fl.origin_line_start = 0
          /\ \E k \in 1..Len(styles) :
               /\ styles[k].origin_line = 1
               /\ styles[k].origin_line_offset_start
                    = styles[k].start_of_buffer

\* the style an origin line carries for the span start..end of the buffer
CarriesStyle(styles, ol, start, end) ==
  \E j \in 1..Len(styles) :
    /\ styles[j].len = end - start
    /\ styles[j].folded_line_offset_end = end - ol.start_offset
    /\ styles[j].origin_line_offset_start < ol.len

\* a span and a line have an offset in common
Overlaps(span, ol) ==
  span.start < ol.start_offset + ol.len /\ ol.start_offset < span.end

\* C18: an origin line carries a line-relative style, with its start inside
\* the line, for every semantic style and every diagnostic that overlaps the
\* line; a span that crosses a line boundary or ends at the line end is not
\* dropped.
C18_OverlappingSpansProjected ==
  last_call.rebuild # "err" =>
    \A l \in 1..Len(lines.origin_lines) :
      LET ol == lines.origin_lines[l]
      IN /\ lines.style_from_lsp =>
              \A k \in 1..Len(lines.semantic_styles) :
                Overlaps(lines.semantic_styles[k], ol) =>
                  CarriesStyle(OriginLineSemantic(lines, ol), ol,
                               lines.semantic_styles[k].start,
                               lines.semantic_styles[k].end)
         /\ lines.config.enable_error_lens =>
              \A k \in 1..Len(lines.diagnostics) :
                /\ Overlaps(lines.diagnostics[k], ol)
                /\ lines.diagnostics[k].severity
                     \in {"ERROR", "WARNING", "INFORMATION"}
                => /\ last_call.result # "panic"
                   /\ CarriesStyle(OriginLineDiagnostic(lines, ol), ol,
                                   lines.diagnostics[k].start,
                                   lines.diagnostics[k].end)

\* C20: a diagnostic of severity HINT or of no severity gives no line a
\* style; with error lens enabled a diagnostic of severity ERROR, WARNING or
\* INFORMATION gives every line it overlaps one style.
C20_SeverityCutoff ==
  last_call.rebuild # "err" =>
    \A l \in 1..Len(lines.origin_lines), k \in 1..Len(lines.diagnostics) :
      LET ol == lines.origin_lines[l]
          diag == lines.diagnostics[k]
          styles == OriginLineDiagnostic(lines, ol)
          Of(j) == /\ styles[j].len = diag.end - diag.start
                   /\ styles[j].folded_line_offset_end
                        = diag.end - ol.start_offset
      IN /\ diag.severity \in {"HINT", "None"} =>
              ~ \E j \in 1..Len(styles) : Of(j)
         /\ /\ diag.severity \in {"ERROR", "WARNING", "INFORMATION"}
            /\ lines.config.enable_error_lens
            /\ Overlaps(diag, ol)
            => /\ last_call.result # "panic"
               /\ Cardinality({ j \in 1..Len(styles) : Of(j) }) = 1

Affinities == {"Forward", "Backward"}

RECURSIVE VisualLineOfFinalOffset(_, _, _)
\* the loop of OriginFoldedLine::visual_line_of_final_offset: the first
\* sub-line the rest of the final offset fits in and what is left of the
\* offset there, else the last sub-line
VisualLineOfFinalOffset(layout, index, final_offset_line) ==
  IF index >= Len(layout) THEN <<Len(layout) - 1, final_offset_line>>
  ELSE IF final_offset_line <= layout[index + 1]
  THEN <<index, final_offset_line>>
  ELSE VisualLineOfFinalOffset(layout, index + 1,
                               final_offset_line - layout[index + 1])

\* OriginFoldedLine::visual_line_of_final_offset
visual_line_of_final_offset(layout, final_offset) ==
  IF Len(layout) = 1 THEN <<0, final_offset>>
  ELSE VisualLineOfFinalOffset(layout, 0, final_offset)

\* a variant of visual_line_of_final_offset that goes by the affinity: an
\* offset at the end of a sub-line that has a next one is the start of the
\* next one when the affinity is forward
visual_line_of_final_offset_affinity(layout, final_offset, affinity) ==
  LET r == visual_line_of_final_offset(layout, final_offset)
  IN IF /\ affinity = "Forward"
        /\ r[1] + 1 < Len(layout)
        /\ r[2] = layout[r[1] + 1]
     THEN <<r[1] + 1, 0>>
     ELSE r

\* DocLines::visual_line_of_offset with what it returns: the visual line,
\* the offset in it, the offset in the folded line and the folded line
visual_line_of_offset_affinity(d, offset, affinity) ==
  LET b == text_of(d)
      origin_line == line_of_offset(b, offset)
      col == offset - offset_of_line(b, origin_line)
      hits == { i \in 1..Len(d.origin_folded_lines) :
                  /\ d.origin_folded_lines[i].origin_line_start <= origin_line
                  /\ origin_line <= d.origin_folded_lines[i].origin_line_end }
      Found(fl, final_offset, r) ==
        LET vls == { i \in 1..Len(d.visual_lines) :
                       /\ d.visual_lines[i].origin_folded_line = fl.line_index
                       /\ d.visual_lines[i].origin_folded_line_sub_index = r[1] }
        IN IF vls = {} THEN [kind |-> "Err"]
           ELSE [kind |-> "Ok",
                 visual_line |->
                   d.visual_lines[CHOOSE i \in vls : \A j \in vls : i <= j],
                 offset_of_visual |-> r[2],
                 offset_of_folded |-> final_offset,
                 folded_line |-> fl]
      In(fl, final_offset) ==
        IF final_offset > fl.text_layout.text.text_len THEN [kind |-> "panic"]
        ELSE Found(fl, final_offset,
                   visual_line_of_final_offset(
                     fl.text_layout.text.line_layout, final_offset))
      Of(fl) ==
        In(fl, final_col_of_col(fl.text_layout.phantom_text,
                                origin_line, col, TRUE))
  IN IF hits = {} THEN [kind |-> "Err"]
     ELSE Of(d.origin_folded_lines[CHOOSE i \in hits : \A j \in hits : i <= j])

\* the final offsets of a layout at which one sub-line ends and the next
\* one begins, each with the index of the sub-line that ends there
Boundaries(layout) ==
  { <<k, SumOf(SubSeq(layout, 1, k))>> : k \in 1..(Len(layout) - 1) }

\* C19: an offset on the boundary between two visual sub-lines of a folded
\* line is resolved by the affinity: forward gives column 0 of the next
\* visual line, backward the end of the previous one.
C19_BoundaryByAffinity ==
  last_call.rebuild # "err" =>
    \A offset \in 0..buffer_len(text_of(lines)), affinity \in Affinities :
      LET r == visual_line_of_offset_affinity(lines, offset, affinity)
      IN r.kind = "Ok" =>
           \A bd \in Boundaries(r.folded_line.text_layout.text.line_layout) :
             bd[2] = r.offset_of_folded =>
               IF affinity = "Forward"
               THEN /\ r.visual_line.origin_folded_line_sub_index = bd[1]
                    /\ r.offset_of_visual = 0
               ELSE /\ r.visual_line.origin_folded_line_sub_index = bd[1] - 1
                    /\ r.offset_of_visual
                         = r.folded_line.text_layout.text.line_layout[bd[1]]


\* ------------------------------------------------------------ selection
NoInfo == [none |-> TRUE]

\* ScreenLines::most_up_visual_line_info_of_visual_line and
\* most_down_visual_line_info_of_visual_line: the line of the screen that
\* shows the visual line, if one does
visual_line_info_of_visual_line(screen_lines, vl) ==
  IF \E i \in 1..Len(screen_lines.lines) : screen_lines.lines[i].vline = vl
  THEN screen_lines.lines[CHOOSE i \in 1..Len(screen_lines.lines) :
                            screen_lines.lines[i].vline = vl]
  ELSE NoInfo

\* OriginFoldedLine::line_scope: the rectangle at y between the positions
\* of two columns of the folded line
line_scope(start_col, end_col, y) ==
  [start_col |-> start_col, end_col |-> end_col, y |-> y]

\* DocLines::normal_selection from what visual_line_of_offset gave for its
\* two offsets
normal_selection_by(d, vs, ve) ==
  IF vs.kind # "Ok" THEN [kind |-> vs.kind, rects |-> <<>>]
  ELSE IF ve.kind # "Ok" THEN [kind |-> ve.kind, rects |-> <<>>]
  ELSE
    LET screen_lines == d.signals.screen_lines.v
        vl_start == vs.visual_line
        vl_end == ve.visual_line
        rs_start == visual_line_info_of_visual_line(screen_lines, vl_start)
        rs_end == visual_line_info_of_visual_line(screen_lines, vl_end)
        between == SelectSeq(screen_lines.lines,
                     LAMBDA sl : /\ sl.vline.line_index < vl_end.line_index
                                 /\ sl.vline.line_index > vl_start.line_index
                                 /\ sl.vline.origin_folded_line
                                      < Len(d.origin_folded_lines))
    IN IF rs_start = NoInfo \/ rs_end = NoInfo
       THEN [kind |-> "Ok", rects |-> <<>>]
       ELSE IF vl_start = vl_end
       THEN [kind |-> "Ok",
             rects |-> << line_scope(vs.offset_of_folded, ve.offset_of_folded,
                                     rs_start.y) >>]
       ELSE [kind |-> "Ok",
             rects |->
               << line_scope(vs.offset_of_folded, vl_start.visual_interval.end,
                             rs_start.y) >>
               \o [i \in 1..Len(between) |->
                     line_scope(between[i].vline.visual_interval.start,
                                between[i].vline.visual_interval.end,
                                between[i].y)]
               \o << line_scope(0, ve.offset_of_folded, rs_end.y) >>]

\* a variant of normal_selection that resolves its offsets by the affinity:
\* the start forward, the end backward
normal_selection_affinity(d, start_offset, end_offset) ==
  LET At(offset, affinity) ==
        LET r == visual_line_of_offset_affinity(d, offset, "Forward")
            Moved(to) ==
              LET vls == { i \in 1..Len(d.visual_lines) :
                             /\ d.visual_lines[i].origin_folded_line
                                  = r.folded_line.line_index
                             /\ d.visual_lines[i].origin_folded_line_sub_index
                                  = to[1] }
              IN IF vls = {} THEN [kind |-> "Err"]
                 ELSE [r EXCEPT !.visual_line =
                                  d.visual_lines[CHOOSE i \in vls : TRUE],
                                !.offset_of_visual = to[2]]
        IN IF r.kind # "Ok" THEN r
           ELSE Moved(visual_line_of_final_offset_affinity(
                        r.folded_line.text_layout.text.line_layout,
                        r.offset_of_folded, affinity))
  IN normal_selection_by(d, At(start_offset, "Forward"),
                         At(end_offset, "Backward"))

normal_selection(d, start_offset, end_offset) ==
  normal_selection_by(d,
    visual_line_of_offset_affinity(d, start_offset, "Forward"),
    visual_line_of_offset_affinity(d, end_offset, "Forward"))

\* the index of the visual line that shows the character at an offset
VisualLineOfChar(d, offset) ==
  LET r == visual_line_of_offset_affinity(d, offset, "Forward")
      layout == r.folded_line.text_layout.text.line_layout
      to == visual_line_of_final_offset_affinity(layout, r.offset_of_folded,
                                                 "Forward")
  IN r.visual_line.line_index
       + (to[1] - r.visual_line.origin_folded_line_sub_index)

\* a selection start..end of shown text, both ends on the screen
ShownSelection(d, start_offset, end_offset) ==
  LET vs == visual_line_of_offset_affinity(d, start_offset, "Forward")
      ve == visual_line_of_offset_affinity(d, end_offset, "Forward")
      screen_lines == d.signals.screen_lines.v
  IN /\ start_offset < end_offset
     /\ vs.kind = "Ok" /\ ve.kind = "Ok"
     /\ \/ vs.folded_line.line_index < ve.folded_line.line_index
        \/ /\ vs.folded_line.line_index = ve.folded_line.line_index
           /\ vs.offset_of_folded < ve.offset_of_folded
     /\ \A i \in VisualLineOfChar(d, start_offset)..ve.visual_line.line_index :
          \E k \in 1..Len(screen_lines.lines) :
            /\ screen_lines.lines[k].vline.line_index = i
            /\ i < Len(d.visual_lines)
            /\ screen_lines.lines[k].vline = d.visual_lines[i + 1]
     /\ vs.visual_line.line_index < Len(d.visual_lines)
     /\ visual_line_info_of_visual_line(screen_lines, vs.visual_line) # NoInfo

\* C17: normal_selection gives one rectangle per visual line the selection
\* spans, the first from the start column, the last up to the end column,
\* the ones between over their whole visual line; a selection inside one
\* visual line gives exactly one rectangle.
C17_OneRectPerVisualLine ==
  (last_call.rebuild # "err" /\ last_call.name # "new") =>
    \A start_offset, end_offset \in 0..buffer_len(text_of(lines)) :
      ShownSelection(lines, start_offset, end_offset) =>
        LET rects == normal_selection(lines, start_offset, end_offset).rects
            first == VisualLineOfChar(lines, start_offset)
            last == visual_line_of_offset_affinity(
                      lines, end_offset, "Forward").visual_line.line_index
        IN /\ Len(rects) = last - first + 1
           /\ \A k \in 2..(Len(rects) - 1) :
                /\ rects[k].start_col
                     = lines.visual_lines[first + k].visual_interval.start
                /\ rects[k].end_col
                     = lines.visual_lines[first + k].visual_interval.end


\* --------------------------------------------------------------- clicks
\* A point is a column of glyphs x and a height y in the viewport.
MaxClickX == 6
ClickYs == { row * LineHeight + 13 : row \in 0..(MaxLines + 1) }

\* ScreenLines::visual_line_of_y: the line of the screen at height y, the
\* first one for a point above them all, the last one for a point below
visual_line_of_y(screen_lines, y) ==
  LET n == Len(screen_lines.lines)
      at == { i \in 1..n :
                /\ screen_lines.lines[i].y <= y
                /\ y < screen_lines.lines[i].y + screen_lines.line_height }
  IN IF at # {} THEN screen_lines.lines[CHOOSE i \in at : TRUE]
     ELSE IF y < screen_lines.lines[1].y THEN screen_lines.lines[1]
     ELSE screen_lines.lines[n]

\* TextLayout::hit_point at column x of a sub-line: the glyph there, or the
\* end of the sub-line, in front of a line ending, for a point behind its
\* last glyph
hit_point(layout, sub_index, ending, x) ==
  LET start == SumOf(SubSeq(layout, 1, sub_index))
      glyphs == IF sub_index + 1 = Len(layout)
                THEN Max2(layout[sub_index + 1], ending) - ending
                ELSE layout[sub_index + 1]
  IN IF x < glyphs THEN [index |-> start + x, is_inside |-> TRUE]
     ELSE [index |-> start + glyphs, is_inside |-> FALSE]

\* DocLines::buffer_offset_of_click
buffer_offset_of_click(d, x, y) ==
  LET screen_lines == d.signals.screen_lines.v
      info == visual_line_of_y(screen_lines, y)
      folded == { i \in 1..Len(d.origin_folded_lines) :
                    d.origin_folded_lines[i].line_index
                      = info.vline.origin_folded_line }
      Hit(fl) ==
        hit_point(fl.text_layout.text.line_layout,
                  info.vline.origin_folded_line_sub_index,
                  IF fl.origin_line_end < last_line(text_of(d))
                  THEN LineEndingLen ELSE 0,
                  x)
      At(fl, hit) ==
        LET pos == cursor_position_of_final_col(fl.text_layout.phantom_text,
                                                hit.index)
        IN IF pos[1] > last_line(text_of(d)) THEN [kind |-> "Err"]
           ELSE [kind |-> "Ok",
                 offset |-> offset_of_line_col(text_of(d), pos[1], pos[2]),
                 is_inside |-> hit.is_inside,
                 visual_line |-> info.vline]
      On(fl) == At(fl, Hit(fl))
  IN IF Len(screen_lines.lines) = 0 THEN [kind |-> "panic"]
     ELSE IF info.vline.line_index >= Len(d.visual_lines) \/ folded = {}
     THEN [kind |-> "Err"]
     ELSE IF info.vline.origin_folded_line_sub_index
               >= Len(d.origin_folded_lines[CHOOSE i \in folded : TRUE]
                        .text_layout.text.line_layout)
     THEN [kind |-> "Err"]
     ELSE On(d.origin_folded_lines[CHOOSE i \in folded : TRUE])

\* the glyphs of the sub-line a visual line shows, a line ending left out
GlyphsOf(d, vl) ==
  LET fl == d.origin_folded_lines[vl.origin_folded_line + 1]
      layout == fl.text_layout.text.line_layout
      n == layout[vl.origin_folded_line_sub_index + 1]
  IN IF /\ vl.origin_folded_line_sub_index + 1 = Len(layout)
        /\ fl.origin_line_end < last_line(text_of(d))
     THEN Max2(n, LineEndingLen) - LineEndingLen
     ELSE n

\* the screen shows the lines as they are now
ScreenUpToDate(d) ==
  LET screen_lines == d.signals.screen_lines.v
  IN /\ Len(screen_lines.lines) > 0
     /\ screen_lines.line_height = LineHeight
     /\ \A i \in 1..Len(screen_lines.lines) :
          /\ screen_lines.lines[i].vline.line_index < Len(d.visual_lines)
          /\ screen_lines.lines[i].vline
               = d.visual_lines[screen_lines.lines[i].vline.line_index + 1]

\* a point below the last line of the screen
BelowLast(d, y) ==
  LET screen_lines == d.signals.screen_lines.v
  IN y >= screen_lines.lines[Len(screen_lines.lines)].y
            + screen_lines.line_height

\* C15: buffer_offset_of_click gives a valid offset of the buffer; a point
\* on a glyph of the line at its height is inside, a point right of the
\* last character of that line is not inside and gives the offset behind
\* that character, a point below the last line is not inside.
C15_ClickResolves ==
  (last_call.rebuild = "ok" /\ ScreenUpToDate(lines)) =>
    \A x \in 0..MaxClickX, y \in ClickYs :
      LET r == buffer_offset_of_click(lines, x, y)
      IN r.kind = "Ok" =>
           /\ r.offset \in 0..buffer_len(text_of(lines))
           /\ BelowLast(lines, y) => ~r.is_inside
           /\ ~BelowLast(lines, y) =>
                (r.is_inside <=> x < GlyphsOf(lines, r.visual_line))
           /\ x >= GlyphsOf(lines, r.visual_line) =>
                /\ ~r.is_inside
                /\ r.visual_line.origin_folded_line_sub_index + 1
                     = Len(lines.origin_folded_lines[
                             r.visual_line.origin_folded_line + 1]
                           .text_layout.text.line_layout)
                   => r.offset
                        = offset_of_line_col(
                            text_of(lines),
                            lines.origin_folded_lines[
                              r.visual_line.origin_folded_line + 1]
                              .origin_line_end,
                            MaxLineLen + 1)


\* ------------------------------------------------ the other components
\* Each component beside DocLines has a specification of its own, in which
\* `lines` is the value of the component, `last_call` is its last call and
\* the other variables stay as they start.
Idle == sets = NoSets /\ fold_trip = NoTrip /\ calls = 0
Kept == UNCHANGED <<sets, fold_trip, calls>>


\* -------------------------------------------------------- SignalManager
MaxSignalValue == 2
SignalValues == 0..MaxSignalValue

\* SignalManager::trigger_force
SignalManager_trigger_force(sm) == [sm EXCEPT !.signal = sm.v, !.dirty = FALSE]

\* what SignalManager::update_if_not_equal returns
update_if_not_equal_result(sm, nv) == sm.v # nv

InitSignals ==
  /\ \E v \in SignalValues : lines = SignalManager_new(v)
  /\ last_call = [name |-> "new", before |-> lines, nv |-> lines.v,
                  result |-> TRUE]
  /\ Idle

\* a call of the manager: what it was before, the value handed in, what
\* came back
Called(name, nv, after, result) ==
  /\ lines' = after
  /\ last_call' = [name |-> name, before |-> lines, nv |-> nv,
                   result |-> result]
  /\ Kept

SmUpdateForce ==
  \E nv \in SignalValues : Called("update_force", nv, update_force(lines, nv), TRUE)

SmUpdateIfNotEqual ==
  \E nv \in SignalValues :
    Called("update_if_not_equal", nv, update_if_not_equal(lines, nv),
           update_if_not_equal_result(lines, nv))

\* val_mut hands out the held value, and the caller writes nv to it
SmValMut ==
  \E nv \in SignalValues :
    Called("val_mut", nv, [val_mut(lines) EXCEPT !.v = nv], TRUE)

SmTrigger == Called("trigger", lines.v, SignalManager_trigger(lines), TRUE)

SmTriggerForce ==
  Called("trigger_force", lines.v, SignalManager_trigger_force(lines), TRUE)

NextSignals ==
  \/ SmUpdateForce
  \/ SmUpdateIfNotEqual
  \/ SmValMut
  \/ SmTrigger
  \/ SmTriggerForce

SpecSignals == InitSignals /\ [][NextSignals]_vars

\* C22: while the dirty flag is false the published value is the held one;
\* trigger publishes only when dirty and then clears the flag;
\* update_if_not_equal with the held value changes neither the value nor the
\* flag and returns false.
C22_CleanMeansPublished ==
  /\ ~lines.dirty => lines.signal = lines.v
  /\ last_call.name = "trigger" =>
       IF last_call.before.dirty
       THEN lines = [last_call.before EXCEPT
                       !.signal = last_call.before.v, !.dirty = FALSE]
       ELSE lines = last_call.before
  /\ last_call.name = "update_if_not_equal"
       /\ last_call.nv = last_call.before.v =>
         lines = last_call.before /\ last_call.result = FALSE

\* a clean manager with a published value was handed the value it holds
C22_Witness ==
  /\ last_call.name = "update_if_not_equal"
  /\ last_call.nv = last_call.before.v
  /\ ~lines.dirty
  /\ lines.signal = lines.v
  /\ lines.v # 0


\* ----------------------------------------------------------- ExtChannel
\* The worker thread sends the values 1, 2, ... and then invokes the close
\* action; the effect of create_signal_from_channel runs on the interface
\* thread. The interface thread takes the triggers and actions that were
\* registered with it one at a time, in no order the model relies on.
MaxSends == 3

\* create_signal_from_channel, after the first run of its effect
create_signal_from_channel ==
  [data |-> <<>>,            \* the queue both threads share
   written |-> <<>>,         \* the values written to the read signal, in order
   triggers |-> 0,           \* registered triggers the interface has not taken
   close_pending |-> FALSE,  \* the close action waits for the interface
   channel_closed |-> FALSE,
   disposed |-> FALSE,
   sent |-> 0,               \* values sent so far
   sent_at_close |-> 0,      \* values sent when the close action was invoked
   close_invoked |-> FALSE,
   worker |-> "idle",        \* or "pushed": inside send, before the trigger
   effect |-> "idle"]        \* or "drain", "check": inside a run

\* ExtChannel::send, its first statement
push_back(ch, event) ==
  [ch EXCEPT !.data = Append(@, event), !.sent = event, !.worker = "pushed"]

\* ExtChannel::send, its second statement
register_ext_trigger(ch) ==
  [ch EXCEPT !.triggers = @ + 1, !.worker = "idle"]

\* the close action invoked on the worker thread
close(ch) ==
  [ch EXCEPT !.close_pending = TRUE, !.close_invoked = TRUE,
             !.sent_at_close = ch.sent]

\* a variant of the draining step that takes the newest value
pop_back(ch) ==
  IF ch.data = <<>> THEN [ch EXCEPT !.effect = "check"]
  ELSE [ch EXCEPT !.written = Append(@, ch.data[Len(ch.data)]),
                  !.data = SubSeq(@, 1, Len(@) - 1)]

\* one turn of `while let Some(value) = data.lock().pop_front()`
pop_front(ch) ==
  IF ch.data = <<>> THEN [ch EXCEPT !.effect = "check"]
  ELSE [ch EXCEPT !.written = Append(@, Head(ch.data)), !.data = Tail(@)]

\* the end of a run of the effect
dispose_if_closed(ch) ==
  [ch EXCEPT !.disposed = ch.channel_closed, !.effect = "idle"]

\* a disposed scope runs no effect
run_effect(ch) == IF ch.disposed THEN ch ELSE [ch EXCEPT !.effect = "drain"]

InitChannel ==
  /\ lines = create_signal_from_channel
  /\ last_call = [name |-> "create_signal_from_channel"]
  /\ Idle

Step(name, ch) ==
  /\ lines' = ch
  /\ last_call' = [name |-> name]
  /\ Kept

WorkerPush ==
  /\ lines.worker = "idle"
  /\ lines.sent < MaxSends
  /\ Step("push_back", push_back(lines, lines.sent + 1))

WorkerRegister ==
  /\ lines.worker = "pushed"
  /\ Step("register_ext_trigger", register_ext_trigger(lines))

WorkerClose ==
  /\ lines.worker = "idle"
  /\ ~lines.close_invoked
  /\ Step("close", close(lines))

InterfaceTakesTrigger ==
  /\ lines.effect = "idle"
  /\ lines.triggers > 0
  /\ Step("trigger", run_effect([lines EXCEPT !.triggers = @ - 1]))

InterfaceTakesClose ==
  /\ lines.effect = "idle"
  /\ lines.close_pending
  /\ Step("channel_closed",
          run_effect([lines EXCEPT !.close_pending = FALSE,
                                   !.channel_closed = ~lines.disposed]))

EffectDrains ==
  /\ lines.effect = "drain"
  /\ Step("pop_front", pop_front(lines))

EffectEnds ==
  /\ lines.effect = "check"
  /\ Step("dispose_if_closed", dispose_if_closed(lines))

NextChannel ==
  \/ WorkerPush
  \/ WorkerRegister
  \/ WorkerClose
  \/ InterfaceTakesTrigger
  \/ InterfaceTakesClose
  \/ EffectDrains
  \/ EffectEnds

SpecChannel == InitChannel /\ [][NextChannel]_vars

\* C23: the values sent before the close action is invoked are written to
\* the read signal once each and in the order they were sent, and all of
\* them before the scope is disposed.
C23_SentValuesWrittenInOrder ==
  /\ \A i, j \in 1..Len(lines.written) :
       i < j => lines.written[i] < lines.written[j]
  /\ ~lines.disposed =>
       lines.written \o lines.data = [i \in 1..lines.sent |-> i]
  /\ lines.disposed =>
       \A v \in 1..lines.sent_at_close :
         \E i \in 1..Len(lines.written) : lines.written[i] = v

\* the scope was disposed after every value had been sent and written
C23_Witness ==
  /\ lines.disposed
  /\ lines.sent_at_close = MaxSends
  /\ lines.written = [i \in 1..MaxSends |-> i]


\* -------------------------------------------------------- ansi-to-style
\* The vte parser hands the input to TerminalParser one item at a time: a
\* character to print, a control byte to execute or the parameters of a
\* CSI sequence. A character is given by the bytes it has in UTF-8.
MaxItems == 4
CharWidths == {1, 2}
SgrParams == {0, 1, 3, 31, 41}

\* Option<T> is the empty sequence for None and <<v>> for Some(v)
None == <<>>
Some(v) == <<v>>

NoAttrs ==
  [bold |-> FALSE, italic |-> FALSE, underline |-> FALSE,
   bg_color |-> None, fg_color |-> None]

\* the arguments csi_dispatch hands to StyleState::init for one parameter
InitArgs(param) ==
  LET none == [bold |-> None, italic |-> None, underline |-> None,
               bg_color |-> None, fg_color |-> None]
  IN CASE param = 1 -> [none EXCEPT !.bold = Some(TRUE)]
       [] param = 3 -> [none EXCEPT !.italic = Some(TRUE)]
       [] param = 4 -> [none EXCEPT !.underline = Some(TRUE)]
       [] param \in 30..37 -> [none EXCEPT !.fg_color = Some(param - 30)]
       [] param \in 40..47 -> [none EXCEPT !.bg_color = Some(param - 40)]
       [] OTHER -> none

\* the attributes after new ones were laid over them
Over(attrs, new) ==
  [bold |-> IF new.bold = None THEN attrs.bold ELSE new.bold[1],
   italic |-> IF new.italic = None THEN attrs.italic ELSE new.italic[1],
   underline |-> IF new.underline = None THEN attrs.underline
                 ELSE new.underline[1],
   bg_color |-> IF new.bg_color = None THEN attrs.bg_color ELSE new.bg_color,
   fg_color |-> IF new.fg_color = None THEN attrs.fg_color ELSE new.fg_color]

StyleState_None == [kind |-> "None", start |-> 0, end |-> 0, attrs |-> NoAttrs]

\* the TextStyle a StyleState::Ref turns into
TextStyle(st) == [start |-> st.start, end |-> st.end, attrs |-> st.attrs]

\* StyleState::ref_by
ref_by(st, offset) ==
  CASE st.kind = "None" -> st
    [] st.kind = "Init" ->
         [st EXCEPT !.kind = "Ref", !.start = offset, !.end = offset + 1]
    [] OTHER -> [st EXCEPT !.end = offset + 1]

\* StyleState::init: the state after, and the styles to push
init(st, new) ==
  [state |-> [kind |-> "Init", start |-> 0, end |-> 0,
              attrs |-> Over(st.attrs, new)],
   styles |-> IF st.kind = "Ref" THEN <<TextStyle(st)>> ELSE <<>>]

\* StyleState::clear
clear(st) ==
  [state |-> StyleState_None,
   styles |-> IF st.kind = "Ref" THEN <<TextStyle(st)>> ELSE <<>>]

\* TerminalParser::new, with the characters printed so far and the
\* attributes the SGR parameters so far have put in effect
TerminalParser_new ==
  [text_len |-> 0, styles |-> <<>>, style_state |-> StyleState_None,
   printed |-> <<>>, in_effect |-> NoAttrs, items |-> 0]

\* TerminalParser::print of a character of width bytes
print(p, width) ==
  [p EXCEPT !.text_len = @ + width,
            !.style_state = ref_by(@, p.text_len + width - 1),
            !.printed = Append(@, [start |-> p.text_len,
                                   end |-> p.text_len + width,
                                   attrs |-> p.in_effect]),
            !.items = @ + 1]

\* TerminalParser::execute of a line feed
execute(p) == [p EXCEPT !.text_len = @ + 1, !.items = @ + 1]

\* TerminalParser::csi_dispatch of one SGR parameter
csi_dispatch(p, param) ==
  LET r == IF param = 0 THEN clear(p.style_state)
           ELSE init(p.style_state, InitArgs(param))
  IN [p EXCEPT !.style_state = r.state,
               !.styles = @ \o r.styles,
               !.in_effect = IF param = 0 THEN NoAttrs
                             ELSE Over(@, InitArgs(param)),
               !.items = @ + 1]

\* parse_byte: the output of the handler once the input is used up
parse_byte(p) == [text_len |-> p.text_len, styles |-> p.styles]

InitAnsi ==
  /\ lines = TerminalParser_new
  /\ last_call = [name |-> "new"]
  /\ Idle

PerformPrint ==
  /\ lines.items < MaxItems
  /\ \E width \in CharWidths : Step("print", print(lines, width))

PerformExecute ==
  /\ lines.items < MaxItems
  /\ Step("execute", execute(lines))

PerformCsiDispatch ==
  /\ lines.items < MaxItems
  /\ \E param \in SgrParams : Step("csi_dispatch", csi_dispatch(lines, param))

NextAnsi == PerformPrint \/ PerformExecute \/ PerformCsiDispatch

SpecAnsi == InitAnsi /\ [][NextAnsi]_vars

\* the styles that cover a printed character
Covering(styles, ch) ==
  { i \in 1..Len(styles) : styles[i].start <= ch.start /\ ch.end <= styles[i].end }
Touching(styles, ch) ==
  { i \in 1..Len(styles) : styles[i].start < ch.end /\ ch.start < styles[i].end }

\* the offsets a character starts or ends at
CharBoundaries(p) ==
  {0, p.text_len} \cup { p.printed[i].start : i \in 1..Len(p.printed) }
    \cup { p.printed[i].end : i \in 1..Len(p.printed) }

\* C24: for any input, the styles parse_byte returns describe the SGR state
\* each character was printed under: a character printed with an attribute
\* in effect is covered by exactly one style carrying those attributes, a
\* character printed with none is covered by no style, and the ranges are
\* non-empty, increasing, non-overlapping, within the text and on character
\* boundaries.
C24_StylesDescribeSgrState ==
  LET out == parse_byte(lines)
  IN /\ \A i \in 1..Len(lines.printed) :
          IF lines.printed[i].attrs = NoAttrs
          THEN Touching(out.styles, lines.printed[i]) = {}
          ELSE /\ Cardinality(Covering(out.styles, lines.printed[i])) = 1
               /\ \A k \in Covering(out.styles, lines.printed[i]) :
                    out.styles[k].attrs = lines.printed[i].attrs
     /\ \A k \in 1..Len(out.styles) :
          /\ out.styles[k].start < out.styles[k].end
          /\ out.styles[k].end <= out.text_len
          /\ {out.styles[k].start, out.styles[k].end} \subseteq CharBoundaries(lines)
          /\ k > 1 => out.styles[k - 1].end <= out.styles[k].start


\* ---------------------------------------------------- inline completion
\* An inline completion is Some((text, line, col)), its text given by its
\* length.
MaxCompletionLen == 2

\* DocLines::set_inline_completion
set_inline_completion(c, inline_completion, line, col) ==
  LET Then(r) == OrErr(r, AfterRebuild(r.c))
  IN Then(rebuild(
            [c EXCEPT !.d.inline_completion =
               Some([text |-> inline_completion, line |-> line, col |-> col])],
            FullDelta))

\* RopeDelta::as_simple_insert: the delta puts characters in and takes none
\* out
as_simple_insert(delta) == delta.del = 0 /\ delta.ins > 0

\* DocLines::update_inline_completion
update_inline_completion(c, delta) ==
  IF c.d.inline_completion = None THEN Returned(c, "Ok")
  ELSE
    LET completion == c.d.inline_completion[1].text
        offset == offset_of_line_col(text_of(c.d), c.d.completion_pos[1],
                                     c.d.completion_pos[2])
        new_pos == offset_to_line_col(text_of(c.d), transform(delta, offset))
        inline_completion ==
          IF as_simple_insert(delta)
          THEN IF delta.start = offset /\ delta.ins <= completion
               THEN Some([text |-> completion - delta.ins,
                          line |-> new_pos[1], col |-> new_pos[2]])
               ELSE None
          ELSE Some([text |-> completion,
                     line |-> new_pos[1], col |-> new_pos[2]])
        Then(r) == OrErr(r, AfterRebuild(r.c))
    IN Then(rebuild([c EXCEPT !.d.inline_completion = inline_completion],
                    FullDelta))

InitInline ==
  /\ \E text \in StyleTexts :
       lines = DocLines_new(text, InitViewport, "None", InitConfig)
  /\ sets = NoSets
  /\ last_call = [name |-> "new", result |-> "Ok", rebuild |-> "ok"]
  /\ fold_trip = NoTrip
  /\ calls = 0

SetInlineCompletion ==
  /\ \E inline_completion \in 1..MaxCompletionLen,
        line \in 0..last_line(text_of(lines)), col \in 0..MaxLineLen :
       /\ col <= text_of(lines)[line + 1]
       /\ Return("set_inline_completion",
                 set_inline_completion(Call, inline_completion, line, col))
  /\ fold_trip' = NoTrip

\* the delta of an edit of the buffer is handed to update_inline_completion
UpdateInlineCompletion ==
  /\ \E e \in Edits(text_of(lines)) :
       Return("update_inline_completion",
              update_inline_completion(Call, RopeDelta(text_of(lines), e)))
  /\ fold_trip' = NoTrip

NextInline ==
  \/ SetInlineCompletion
  \/ UpdateInlineCompletion
  \/ SetCompletionLens
  \/ EditBuffer

SpecInline == InitInline /\ [][NextInline]_vars

\* what the inline completion ic should be after the delta: at its own
\* place moved through the delta, shortened by an insertion at its place
MovedThrough(b, ic, delta) ==
  LET offset == offset_of_line_col(b, ic.line, ic.col)
      new_pos == offset_to_line_col(b, transform(delta, offset))
  IN [line |-> new_pos[1], col |-> new_pos[2],
      at_own |-> delta.del = 0 /\ delta.start = offset]

\* C25: update_inline_completion keeps an inline completion at its own
\* recorded (line, col), moved through the delta; its text gets shorter only
\* by a plain insertion at exactly that position; any other edit, an
\* insertion elsewhere included, leaves it present with its text unchanged.
C25_InlineCompletionFollowsDelta ==
  lines.inline_completion # None =>
    \A e \in Edits(text_of(lines)) :
      LET delta == RopeDelta(text_of(lines), e)
          ic == lines.inline_completion[1]
          want == MovedThrough(text_of(lines), ic, delta)
          after == update_inline_completion(Call, delta).d.inline_completion
      IN /\ ~want.at_own => after # None /\ after[1].text = ic.text
         /\ after # None =>
              /\ after[1].line = want.line /\ after[1].col = want.col
              /\ after[1].text # ic.text => want.at_own


\* --------------------------------------------------------- index_to_rgb
\* u8 arithmetic: a build with overflow checks panics when a product or a
\* sum leaves 0..U8Max, a build without them keeps the low eight bits.
U8Max == 255
U8(n) == n % (U8Max + 1)

basic_colors ==
  << <<0, 0, 0>>, <<128, 0, 0>>, <<0, 128, 0>>, <<128, 128, 0>>,
     <<0, 0, 128>>, <<128, 0, 128>>, <<0, 128, 128>>, <<192, 192, 192>>,
     <<128, 128, 128>>, <<255, 0, 0>>, <<0, 255, 0>>, <<255, 255, 85>>,
     <<0, 0, 255>>, <<255, 0, 255>>, <<0, 255, 255>>, <<255, 255, 255>> >>

\* index_to_rgb: the colour, and whether a product or a sum overflowed on
\* the way
index_to_rgb(index) ==
  IF index < 16
  THEN [rgb |-> basic_colors[index + 1], overflow |-> FALSE]
  ELSE IF index < 232
  THEN LET product == (index - 16) * 10
           gray == U8(U8(product) + 8)
       IN [rgb |-> <<gray, gray, gray>>,
           overflow |-> product > U8Max \/ U8(product) + 8 > U8Max]
  ELSE LET product == (index - 232) * 40
       IN [rgb |-> <<U8(product), U8(product), U8(product)>>,
           overflow |-> product > U8Max]

InitRgb ==
  /\ \E index \in 0..U8Max :
       lines = [index |-> index, rgb |-> <<0, 0, 0>>, result |-> "none"]
  /\ last_call = [name |-> "new"]
  /\ Idle

\* index_to_rgb is called with the index; a build with overflow checks
\* panics where a build without them wraps
IndexToRgb ==
  /\ lines.result = "none"
  /\ \E overflow_checks \in BOOLEAN :
       LET r == index_to_rgb(lines.index)
       IN Step("index_to_rgb",
               IF overflow_checks /\ r.overflow
               THEN [lines EXCEPT !.result = "panic"]
               ELSE [lines EXCEPT
                       !.rgb = r.rgb,
                       !.result = IF r.overflow THEN "wrapped" ELSE "Ok"])

NextRgb == IndexToRgb

SpecRgb == InitRgb /\ [][NextRgb]_vars

\* the 6x6x6 colour cube
ColourCube(index) ==
  LET i == index - 16
  IN << (i \div 36) * 51, ((i \div 6) % 6) * 51, (i % 6) * 51 >>

\* C26: index_to_rgb computes every colour without 8-bit overflow, and for
\* the indices 16..231 it returns the value of the 6x6x6 colour cube.
C26_ColourCubeWithoutOverflow ==
  lines.result # "none" =>
    /\ lines.result = "Ok"
    /\ lines.index \in 16..231 => lines.rgb = ColourCube(lines.index)


\* ------------------------------------------------------------- TreeNode
\* A node is its display_id, its level (None < Warn < Error, as the numbers
\* the enum has), whether it is open, and its children. The tree of the
\* panel has the node All at the root.
MaxCrates == 2
MaxFiles == 1
Levels == 0..2

DisplayId_All == [kind |-> "All", crate_name |-> 0, file |-> 0]
DisplayId_Error == [kind |-> "Error", crate_name |-> 0, file |-> 0]
DisplayId_Crate(crate_name) ==
  [kind |-> "Crate", crate_name |-> crate_name, file |-> 0]
DisplayId_CrateFile(crate_name, file) ==
  [kind |-> "CrateFile", crate_name |-> crate_name, file |-> file]
DisplayIds ==
  {DisplayId_All, DisplayId_Error}
    \cup { DisplayId_Crate(n) : n \in 1..MaxCrates }
    \cup { DisplayId_CrateFile(n, f) : n \in 1..MaxCrates, f \in 1..MaxFiles }

TreeNode(display_id, level, open) ==
  [display_id |-> display_id, level |-> level, open |-> open,
   children |-> <<>>]

\* a variant of Level::update that takes the new level whatever it is
Level_update_overwriting(self, level) == level

\* Level::update
Level_update(self, level) == IF level > self THEN level ELSE self

\* the place of the child with this id among the children, 0 if there is none
Find(children, id) ==
  LET found == { i \in 1..Len(children) : children[i].display_id = id }
  IN IF found = {} THEN 0 ELSE CHOOSE i \in found : \A j \in found : i <= j

\* the children after the one with this id was raised to level, or pushed
\* with it
UpdateOrPush(children, id, level, open) ==
  IF Find(children, id) # 0
  THEN [children EXCEPT ![Find(children, id)].level = Level_update(@, level)]
  ELSE Append(children, TreeNode(id, level, open))

\* TreeNode::add_child with DisplayId::Error or DisplayId::Crate
add_child_here(self, id, level) ==
  [self EXCEPT !.level = Level_update(@, level),
               !.children = UpdateOrPush(@, id, level, TRUE)]

\* TreeNode::add_child
add_child(self, id, level) ==
  CASE id.kind = "All" -> self
    [] id.kind \in {"Error", "Crate"} -> add_child_here(self, id, level)
    [] OTHER ->
         LET crate_id == DisplayId_Crate(id.crate_name)
             s1 == add_child_here(self, crate_id, level)
             k == Find(s1.children, crate_id)
         IN IF k = 0 THEN s1
            ELSE [s1 EXCEPT ![
                    "children"][k].children =
                      UpdateOrPush(@, id, level, FALSE)]

RECURSIVE total(_)
RECURSIVE TotalOf(_, _)
\* the fold of TreeNode::total over the children from the k-th on
TotalOf(children, k) ==
  IF k > Len(children) THEN 0
  ELSE total(children[k]) + TotalOf(children, k + 1)

\* TreeNode::total
total(self) == IF self.open THEN 1 + TotalOf(self.children, 1) ELSE 1

RECURSIVE get_children(_, _, _, _, _)
RECURSIVE ChildrenFrom(_, _, _, _, _, _)
\* the loop of get_children over the children from the k-th on: each child
\* goes on with the index the one before it left
ChildrenFrom(children, k, min, max, index, level) ==
  IF k > Len(children) THEN [items |-> <<>>, index |-> index]
  ELSE LET Rest(first) ==
             LET rest == ChildrenFrom(children, k + 1, min, max,
                                      first.index, level)
             IN [items |-> first.items \o rest.items, index |-> rest.index]
       IN Rest(get_children(children[k], min, max, index, level))

\* TreeNode::get_children: the items, and the index it leaves
get_children(self, min, max, index, level) ==
  IF min <= index /\ index <= max
  THEN LET own == << [index |-> index, level |-> level,
                      display_id |-> self.display_id] >>
           Below(below) ==
             [items |-> own \o below.items, index |-> below.index]
       IN IF self.open
          THEN Below(ChildrenFrom(self.children, 1, min, max, index + 1,
                                  level + 1))
          ELSE [items |-> own, index |-> index + 1]
  ELSE [items |-> <<>>, index |-> index]

\* TreeNode::slice
slice(self, range) == get_children(self, range.start, range.end, 0, 0).items

\* TreeNode::total_len
total_len(self) == total(self)

\* the nodes of the tree by their places: <<>> is the root, <<i>> its i-th
\* child, <<i, j>> the j-th child of that
Paths(self) ==
  { <<>> } \cup { <<i>> : i \in 1..Len(self.children) }
    \cup UNION { { <<i, j>> : j \in 1..Len(self.children[i].children) }
                 : i \in 1..Len(self.children) }
NodeAt(self, path) ==
  IF path = <<>> THEN self
  ELSE IF Len(path) = 1 THEN self.children[path[1]]
  ELSE self.children[path[1]].children[path[2]]

\* a click on the arrow of a row: open.update(|x| *x = !*x)
toggle(self, path) ==
  IF path = <<>> THEN [self EXCEPT !.open = ~@]
  ELSE IF Len(path) = 1 THEN [self EXCEPT !.children[path[1]].open = ~@]
  ELSE [self EXCEPT !.children[path[1]].children[path[2]].open = ~@]

Ranges(n) == { r \in [start : 0..n, end : 0..n] : r.start <= r.end }

InitTree ==
  /\ lines = TreeNode(DisplayId_All, 0, TRUE)
  /\ last_call = [name |-> "new"]
  /\ Idle

AddChild ==
  \E id \in DisplayIds, level \in Levels :
    Step("add_child", add_child(lines, id, level))

ToggleOpen ==
  \E path \in Paths(lines) : Step("toggle", toggle(lines, path))

NextTree == AddChild \/ ToggleOpen

SpecTree == InitTree /\ [][NextTree]_vars


RECURSIVE Visible(_, _)
RECURSIVE VisibleOf(_, _, _)
\* the root and the descendants of open nodes in pre-order, each with its
\* depth
VisibleOf(children, k, level) ==
  IF k > Len(children) THEN <<>>
  ELSE Visible(children[k], level) \o VisibleOf(children, k + 1, level)
Visible(self, level) ==
  << [level |-> level, display_id |-> self.display_id] >>
    \o (IF self.open THEN VisibleOf(self.children, 1, level + 1) ELSE <<>>)

\* the visible nodes whose pre-order index is in the range
VisibleIn(self, range) ==
  [i \in 1..(range.end - range.start) |->
     [index |-> range.start + i - 1,
      level |-> Visible(self, 0)[range.start + i].level,
      display_id |-> Visible(self, 0)[range.start + i].display_id]]

\* C27: slice(range) returns in pre-order exactly the visible nodes whose
\* pre-order index is in the half-open range, each with its index and depth:
\* range.len() items for a range that ends within total_len(), also one
\* that starts after 0.
C27_SliceIsVisibleRange ==
  /\ total_len(lines) = Len(Visible(lines, 0))
  /\ \A range \in Ranges(total_len(lines)) :
       slice(lines, range) = VisibleIn(lines, range)


\* the pairs of a node and one of its descendants
Descendants(self) ==
  { <<p, q>> \in Paths(self) \X Paths(self) :
      Len(p) < Len(q) /\ SubSeq(q, 1, Len(p)) = p }

\* no two children of a node have the same display_id
DistinctSiblings(self) ==
  \A p \in Paths(self) :
    LET children == NodeAt(self, p).children
    IN \A i, j \in 1..Len(children) :
         children[i].display_id = children[j].display_id => i = j

\* C30: after any sequence of add_child calls the level of a node has never
\* gone down and is at least the level of each of its descendants, no two
\* siblings share a display_id, and adding a CrateFile creates or reuses its
\* Crate parent.
C30_LevelsAndSiblings ==
  /\ \A pq \in Descendants(lines) :
       NodeAt(lines, pq[1]).level >= NodeAt(lines, pq[2]).level
  /\ DistinctSiblings(lines)
  /\ \A id \in DisplayIds, level \in Levels :
       LET after == add_child(lines, id, level)
           crate_id == DisplayId_Crate(id.crate_name)
       IN /\ \A p \in Paths(lines) :
               /\ NodeAt(after, p).level >= NodeAt(lines, p).level
               /\ NodeAt(after, p).display_id = NodeAt(lines, p).display_id
          /\ id.kind = "CrateFile" =>
               /\ Find(after.children, crate_id) # 0
               /\ Find(after.children[Find(after.children, crate_id)].children,
                       id) # 0
               /\ Len(after.children) =
                    Len(lines.children)
                      + (IF Find(lines.children, crate_id) = 0 THEN 1 ELSE 0)

\* a file was added with a lower level to a crate that an error had been
\* added to before
C30_Witness ==
  /\ last_call.name = "add_child"
  /\ lines.level = 2
  /\ \E i \in 1..Len(lines.children) :
       /\ lines.children[i].display_id.kind = "Crate"
       /\ lines.children[i].level = 2
       /\ \E j \in 1..Len(lines.children[i].children) :
            lines.children[i].children[j].level = 1
  /\ \E i \in 1..Len(lines.children) :
       /\ lines.children[i].display_id.kind = "Crate"
       /\ lines.children[i].level = 0


\* ---------------------------------------------------------------- Lines
\* The lines of the output panel. A rope is the sequence of its characters,
\* of which only the line feed and the carriage return matter; a text
\* layout is the content it was made for.
MaxTextLen == 3
MaxAppends == 2
Chars == {"a", "CR", "LF"}
TextSrcIds == 1..2

RECURSIVE Texts(_)
Texts(n) ==
  IF n = 0 THEN { <<>> }
  ELSE Texts(n - 1) \cup { Append(t, ch) : t \in Texts(n - 1), ch \in Chars }

\* Rope::line_of_offset: the line feeds before the offset
Rope_line_of_offset(rope, offset) ==
  Cardinality({ i \in 1..offset : rope[i] = "LF" })

\* Rope::offset_of_line: where the line starts, the length of the rope for
\* the line after the last
Rope_offset_of_line(rope, line) ==
  LET starts == { i \in 0..Len(rope) : Rope_line_of_offset(rope, i) = line }
  IN IF starts = {} THEN Len(rope)
     ELSE CHOOSE i \in starts : \A j \in starts : i <= j

\* LineEnding::get_chars
get_chars(line_ending) ==
  IF line_ending = "CrLf" THEN <<"CR", "LF">> ELSE <<"LF">>

RECURSIVE trim_end_matches(_)
\* str::trim_end_matches(['\r', '\n'])
trim_end_matches(content) ==
  IF content # <<>> /\ content[Len(content)] \in {"CR", "LF"}
  THEN trim_end_matches(SubSeq(content, 1, Len(content) - 1))
  ELSE content

\* ranges_overlap: the part the two ranges share, None if it is empty
ranges_overlap(r1, r2) ==
  LET overlap ==
        IF r2.start <= r1.start /\ r1.start < r2.end
        THEN Some([start |-> r1.start, end |-> Min2(r1.end, r2.end)])
        ELSE IF r1.start <= r2.start /\ r2.start < r1.end
        THEN Some([start |-> r2.start, end |-> Min2(r2.end, r1.end)])
        ELSE None
  IN IF overlap # None /\ overlap[1].start >= overlap[1].end THEN None
     ELSE overlap

RECURSIVE LinksOf(_, _, _)
\* the hyperlinks of a line: those that overlap it, moved to its start
LinksOf(hyperlink, range, start_offset) ==
  IF hyperlink = <<>> THEN <<>>
  ELSE LET delta_range == ranges_overlap(Head(hyperlink), range)
       IN (IF delta_range = None THEN <<>>
           ELSE << [start |-> delta_range[1].start - start_offset,
                    end |-> delta_range[1].end - start_offset] >>)
            \o LinksOf(Tail(hyperlink), range, start_offset)

RECURSIVE ToLinesFrom(_, _, _)
\* the loop of StyledText::to_lines from line on
ToLinesFrom(styled, line, line_count) ==
  IF line >= line_count THEN <<>>
  ELSE LET start_offset == Rope_offset_of_line(styled.text, line)
           end_offset == Rope_offset_of_line(styled.text, line + 1)
           content ==
             trim_end_matches(SubSeq(styled.text, start_offset + 1, end_offset))
           range == [start |-> start_offset,
                     end |-> start_offset + Len(content)]
       IN (IF start_offset = end_offset \/ content = <<>> THEN <<>>
           ELSE << [content |-> content,
                    hyperlink |-> LinksOf(styled.hyperlink, range,
                                          start_offset)] >>)
            \o ToLinesFrom(styled, line + 1, line_count)

\* StyledText::to_lines
to_lines(styled) ==
  [text_src |-> styled.text_src,
   lines |-> ToLinesFrom(styled, 0,
                         Rope_line_of_offset(styled.text, Len(styled.text)) + 1)]

\* Lines::default
Lines_default ==
  [rope |-> <<>>,
   ropes |-> [src \in TextSrcIds |-> [rope |-> <<>>, lines |-> <<>>]],
   visual_line |-> <<>>, hyperlinks |-> <<>>, text |-> <<>>]

\* a variant of push_src that numbers the lines of a source by the lines of
\* the whole panel
push_src_by_panel(self, text_src, content, text_index, hyperlinks, line_ending) ==
  [self EXCEPT
     !.ropes[text_src] =
        [rope |-> @.rope \o content \o get_chars(line_ending),
         lines |-> Append(@.lines,
                          [line_index |-> Len(self.visual_line) - 1,
                           text_index |-> text_index,
                           hyperlinks |-> hyperlinks])]]

\* Lines::push_src
push_src(self, text_src, content, text_index, hyperlinks, line_ending) ==
  LET rope == self.ropes[text_src].rope
      line_index == IF Len(rope) > 0 THEN Rope_line_of_offset(rope, Len(rope))
                    ELSE 0
  IN [self EXCEPT
        !.ropes[text_src] =
           [rope |-> @.rope \o content \o get_chars(line_ending),
            lines |-> Append(@.lines,
                             [line_index |-> line_index,
                              text_index |-> text_index,
                              hyperlinks |-> hyperlinks])]]

\* one turn of the loop of Lines::append_lines
AppendLine(self, text_src, line, line_index, line_ending) ==
  LET text_index == Len(self.text)
      hyperlink_range ==
        [start |-> Len(self.hyperlinks),
         end |-> Len(self.hyperlinks) + Len(line.hyperlink)]
      s1 == [self EXCEPT
               !.rope = @ \o line.content \o get_chars(line_ending),
               !.hyperlinks = @ \o line.hyperlink,
               !.text = Append(@, line.content),
               !.visual_line =
                  Append(@, [line_index |-> line_index,
                             text_index |-> text_index,
                             hyperlinks |-> hyperlink_range])]
  IN IF text_src = None THEN s1
     ELSE push_src(s1, text_src[1], line.content, text_index, hyperlink_range,
                   line_ending)

RECURSIVE AppendFrom(_, _, _, _, _)
AppendFrom(self, style_lines, k, line_index, line_ending) ==
  IF k > Len(style_lines.lines)
  THEN [self |-> self, line_index |-> line_index]
  ELSE AppendFrom(AppendLine(self, style_lines.text_src, style_lines.lines[k],
                             line_index, line_ending),
                  style_lines, k + 1, line_index + 1, line_ending)

\* Lines::append_lines: the lines after, and whether the check at its end
\* panicked
append_lines(self, style_lines, line_ending) ==
  LET old_len == Len(self.rope)
      Checked(r) ==
        [self |-> r.self,
         result |-> IF r.line_index
                         # Rope_line_of_offset(r.self.rope, Len(r.self.rope))
                    THEN "panic" ELSE "Ok"]
  IN Checked(AppendFrom(self, style_lines, 1,
                        IF old_len > 0
                        THEN Rope_line_of_offset(self.rope, old_len) ELSE 0,
                        line_ending))

StyledTexts ==
  [text_src : {None} \cup { Some(src) : src \in TextSrcIds },
   text : Texts(MaxTextLen),
   hyperlink : { <<>>, <<[start |-> 0, end |-> 2]>> }]

InitLines ==
  /\ \E line_ending \in {"Lf", "CrLf"} :
       lines = [lines |-> Lines_default, line_ending |-> line_ending,
                appends |-> 0]
  /\ last_call = [name |-> "new", result |-> "Ok"]
  /\ Idle

\* SimpleDoc::append_lines
AppendLines ==
  /\ lines.appends < MaxAppends
  /\ last_call.result # "panic"
  /\ \E styled \in StyledTexts :
       LET r == append_lines(lines.lines, to_lines(styled), lines.line_ending)
       IN /\ lines' = [lines EXCEPT !.lines = r.self, !.appends = @ + 1]
          /\ last_call' = [name |-> "append_lines", result |-> r.result]
          /\ Kept

NextLines == AppendLines

SpecLines == InitLines /\ [][NextLines]_vars

\* the i-th line has line_index i, the rope has as many lines as there are
\* entries, and every entry points into text and hyperlinks
Consistent(rope, simple_lines, self) ==
  /\ \A i \in 1..Len(simple_lines) :
       /\ simple_lines[i].line_index = i - 1
       /\ simple_lines[i].text_index < Len(self.text)
       /\ simple_lines[i].hyperlinks.start <= simple_lines[i].hyperlinks.end
       /\ simple_lines[i].hyperlinks.end <= Len(self.hyperlinks)
  /\ Rope_line_of_offset(rope, Len(rope)) = Len(simple_lines)

\* C28: after any sequence of append_lines calls the i-th entry of
\* visual_line has line_index i, the rope has exactly visual_line.len()
\* lines, so the panic at the end of append_lines never fires, every
\* text_index and hyperlink range points at existing entries, and the same
\* holds for each (rope, lines) pair in ropes.
C28_LinesStayConsistent ==
  /\ last_call.result # "panic"
  /\ Consistent(lines.lines.rope, lines.lines.visual_line, lines.lines)
  /\ \A src \in TextSrcIds :
       Consistent(lines.lines.ropes[src].rope, lines.lines.ropes[src].lines,
                  lines.lines)

\* two sources were appended to, the second after the first, one of them
\* with a text of two lines and a hyperlink
C28_Witness ==
  /\ lines.appends = MaxAppends
  /\ Len(lines.lines.visual_line) = 3
  /\ lines.lines.ropes[2].lines # <<>>
  /\ lines.lines.ropes[1].lines # <<>>
  /\ Len(lines.lines.hyperlinks) > 0


\* ------------------------------------------------- SimpleDoc's pointer
MaxPointerLines == 2
MaxPointerLine == 2
MaxPointerCol == 3
PointerLineTexts == { <<"a">>, <<"a", "SP", "a">> }
ClickCounts == 1..3
PointerPositions == [line : 0..MaxPointerLine, col : 0..MaxPointerCol]

Position_None == [kind |-> "None", start |-> 0, end |-> 0]
Position_Caret(offset) == [kind |-> "Caret", start |-> offset, end |-> offset]
Position_Region(start, end) == [kind |-> "Region", start |-> start, end |-> end]

\* Cursor::start
Cursor_start(cursor) ==
  IF cursor.position.kind = "None" THEN None
  ELSE Some(cursor.position.start)

unwrap_or(option, default) == IF option = None THEN default ELSE option[1]

\* Rope::offset_of_line as SimpleDoc::offset_of_line uses it: no line lies
\* beyond the one after the last line feed
SimpleDoc_offset_of_line(self, line) ==
  IF line > Rope_line_of_offset(self.rope, Len(self.rope)) + 1 THEN None
  ELSE Some(Rope_offset_of_line(self.rope, line))

\* TextLayout::hit_point: the column under the pointer, at most the end of
\* the line's text
TextLayout_hit_point(self, line, col) ==
  LET from == Rope_offset_of_line(self.rope, line)
      to == Rope_offset_of_line(self.rope, line + 1)
  IN Min2(col, to - from - 1)

\* SimpleDoc::offset_of_pos: the offset and the line under the pointer; below
\* the last line it is the last offset of the last line, which an empty panel
\* does not have
offset_of_pos(self, pos) ==
  IF pos.line >= self.lines_len
  THEN IF self.lines_len = 0 /\ self.overflow_checks
       THEN [result |-> "panic", offset |-> 0, line |-> 0]
       ELSE [result |-> "Ok", offset |-> Usize(Len(self.rope) - 1),
             line |-> Usize(self.lines_len - 1)]
  ELSE [result |-> "Ok",
        offset |-> Rope_offset_of_line(self.rope, pos.line)
                   + TextLayout_hit_point(self, pos.line, pos.col),
        line |-> pos.line]

\* WordCursor::select_word: the run of word characters around the offset
select_word(rope, offset) ==
  LET Word(from, to) == \A i \in (from + 1)..to : rope[i] = "a"
      start == CHOOSE s \in 0..offset :
                 Word(s, offset) /\ \A t \in 0..offset : Word(t, offset) => s <= t
      end == CHOOSE e \in offset..Len(rope) :
               Word(offset, e) /\ \A t \in offset..Len(rope) : Word(offset, t) => t <= e
  IN [start |-> start, end |-> end]

\* SimpleDoc::pointer_down
pointer_down(self, count, shift, pos) ==
  LET at == offset_of_pos(self, pos)
      Moved(position) ==
        [self |-> [self EXCEPT !.cursor.position = position], result |-> "Ok",
         offset |-> at.offset]
      Failed(result) == [self |-> self, result |-> result, offset |-> at.offset]
  IN IF at.result # "Ok" THEN Failed(at.result)
     ELSE IF count = 1
     THEN [self |-> [self EXCEPT
                       !.cursor.dragging = TRUE,
                       !.cursor.position =
                          IF shift
                          THEN Position_Region(
                                 unwrap_or(Cursor_start(self.cursor), at.offset),
                                 at.offset)
                          ELSE Position_Caret(at.offset)],
           result |-> "Ok", offset |-> at.offset]
     ELSE IF count = 2
     THEN IF at.offset > Len(self.rope) THEN Failed("panic")
          ELSE LET word == select_word(self.rope, at.offset)
               IN Moved(Position_Region(word.start, word.end))
     ELSE LET offset == SimpleDoc_offset_of_line(self, at.line)
              next_line_offset == SimpleDoc_offset_of_line(self, at.line + 1)
          IN IF offset = None \/ next_line_offset = None THEN Failed("Err")
             ELSE Moved(Position_Region(offset[1], next_line_offset[1]))

\* SimpleDoc::pointer_move
pointer_move(self, pos) ==
  LET over == { i \in 1..Len(self.hyperlink_regions) :
                  pos \in self.hyperlink_regions[i] }
      hover == IF over # {}
               THEN IF self.hover_hyperlink = None
                    THEN Some(CHOOSE i \in over : \A j \in over : i <= j)
                    ELSE self.hover_hyperlink
               ELSE None
      hovered == [self EXCEPT !.hover_hyperlink = hover]
      at == offset_of_pos(self, pos)
  IN IF ~self.cursor.dragging
     THEN [self |-> hovered, result |-> "Ok", offset |-> 0]
     ELSE IF at.result # "Ok"
     THEN [self |-> hovered, result |-> at.result, offset |-> at.offset]
     ELSE [self |-> [hovered EXCEPT
                       !.cursor.position =
                          Position_Region(
                            unwrap_or(Cursor_start(self.cursor), at.offset),
                            at.offset)],
           result |-> "Ok", offset |-> at.offset]

\* SimpleDoc::pointer_up
pointer_up(self) == [self EXCEPT !.cursor.dragging = FALSE]

\* SimpleDoc::new, in a build with or without overflow checks; hyperlink_regions
\* is what the last paint left. gesture is history: the anchor of the
\* single-click pointer_down that no pointer_up has followed yet
InitPointer ==
  /\ \E overflow_checks \in BOOLEAN,
        hyperlink_regions \in { <<>>, <<{[line |-> 0, col |-> 0]}>> } :
       lines = [rope |-> <<>>, lines_len |-> 0,
                cursor |-> [dragging |-> FALSE, position |-> Position_None],
                hover_hyperlink |-> None,
                hyperlink_regions |-> hyperlink_regions,
                overflow_checks |-> overflow_checks,
                gesture |-> None]
  /\ last_call = [name |-> "new", result |-> "Ok", offset |-> 0]
  /\ Idle

PointerCall(name, r, gesture) ==
  /\ lines' = [r.self EXCEPT !.gesture = IF r.result = "Ok" THEN gesture ELSE @]
  /\ last_call' = [name |-> name, result |-> r.result, offset |-> r.offset]
  /\ Kept

\* SimpleDoc::append_lines with one line of text
PointerAppendLine ==
  /\ last_call.result # "panic"
  /\ lines.lines_len < MaxPointerLines
  /\ \E content \in PointerLineTexts :
       PointerCall("append_lines",
                   [self |-> [lines EXCEPT !.rope = @ \o content \o <<"LF">>,
                                           !.lines_len = @ + 1],
                    result |-> "Ok", offset |-> 0],
                   lines.gesture)

\* panel's PointerDown listener
PointerDown ==
  /\ last_call.result # "panic"
  /\ \E count \in ClickCounts, shift \in BOOLEAN, pos \in PointerPositions :
       LET r == pointer_down(lines, count, shift, pos)
       IN PointerCall("pointer_down", r,
                      IF count # 1 THEN lines.gesture
                      ELSE IF shift
                      THEN Some(unwrap_or(Cursor_start(lines.cursor), r.offset))
                      ELSE Some(r.offset))

\* panel's PointerMove listener
PointerMove ==
  /\ last_call.result # "panic"
  /\ \E pos \in PointerPositions :
       PointerCall("pointer_move", pointer_move(lines, pos), lines.gesture)

\* panel's PointerUp listener
PointerUp ==
  /\ last_call.result # "panic"
  /\ PointerCall("pointer_up",
                 [self |-> pointer_up(lines), result |-> "Ok", offset |-> 0],
                 None)

NextPointer == PointerAppendLine \/ PointerDown \/ PointerMove \/ PointerUp

SpecPointer == InitPointer /\ [][NextPointer]_vars

\* C29: between a single-click pointer_down and the next pointer_up every
\* pointer_move makes the cursor the region from the anchor of that
\* pointer_down to the offset under the pointer, and outside such a stretch
\* pointer_move leaves the cursor's position alone
C29_DragKeepsAnchor ==
  [][last_call'.name = "pointer_move" =>
       IF lines.gesture # None
       THEN lines'.cursor.position =
              Position_Region(lines.gesture[1], last_call'.offset)
       ELSE lines'.cursor.position = lines.cursor.position]_vars

====
